---- MODULE Spec2Model ----
(***************************************************************************)
(* Wave2Music: the client-side audio pipeline.                             *)
(*                                                                         *)
(*   Part I   the recorder hook (src/src/hooks/useAudioRecorder.ts):       *)
(*            permission probes, the record/pause/resume/stop/reset        *)
(*            handlers, and the platform events they wait for.             *)
(*   Part II  the duration resolver getAudioDuration and its callers       *)
(*            (src/src/stores/projectStore.ts, src/src/stores/aiStore.ts). *)
(*   Part III the effects panel (src/unnamed/part_005): the chain of     *)
(*            active effects, the offline render and its object URLs.      *)
(*   Part IV  the multi-track player                                       *)
(*            (src/src/components/studio/MultiTrackPlayer.tsx) and the     *)
(*            mute, solo and volume operations of the track store.         *)
(*   Part V   the WAV encoder audioBufferToWav (src/unnamed/part_005).     *)
(*   Part VI  createTrack (src/src/stores/aiStore.ts) against the tracks   *)
(*            table and its limit trigger, with calls that overlap.        *)
(*   Part VII the recording container chosen by startRecording.            *)
(*   Part VIII checkTransformationStatus (src/src/stores/aiStore.ts) and   *)
(*            the status vocabularies of the service and of the table.     *)
(*                                                                         *)
(* Handlers run to completion between two awaits (single-threaded event    *)
(* loop); every await is a point where other handlers and platform events  *)
(* interleave.  A handler invoked by the caller is the one of the latest   *)
(* render, so it reads the committed React state; an invocation that is    *)
(* suspended at an await keeps the values its closure captured.            *)
(***************************************************************************)
EXTENDS Integers, Sequences, FiniteSets, TLC

\* ------------------------------------------------------------------ bounds

\* startRecording invocations in one behaviour (each may create a stream,
\* an AudioContext and a MediaRecorder).
MaxStarts == 2

\* dataavailable events of one encoder before it is stopped (timeslice 100ms).
MaxChunks == 1

\* cap of the 1-second tick counter recordingTime.
MaxTime == 1

\* permission probes (requestPermissions / checkPermissions) awaiting the
\* platform at the same time.
MaxProbes == 1

\* store operations (createSession, createTrack) in one behaviour.
MaxCalls == 2

\* renders of the effects panel begun in one behaviour
MaxRenders == 2

\* applyEffectsToSession calls in one behaviour
MaxApplies == 1
VolumeSteps == 2

\* soloTrack calls suspended in their loops at the same time
MaxSolos == 2

\* sample frames and channels of the buffers given to audioBufferToWav
MaxFrames == 2
MaxChannels == 2

\* createTrack calls in one behaviour, which may all be in progress at
\* the same time
MaxCreates == 2
MaxDeletes == 1

StartIds == 1..MaxStarts

\* --------------------------------------------------------------- variables

VARIABLES
    \* the tracks whose audio the browser cannot load or play: play() on
    \* their element rejects (MultiTrackPlayer.tsx:34-37, 100)
    elFailed,
    \* an AI transformation: its row in ai_transformations, its copy in the
    \* store, and a checkTransformationStatus in progress
    \* (aiStore.ts:264-339)
    transformation, currentTransformation, checkPc, checkRow,
    statusResponse, updates, pollingActive, cancelPc,
    \* the containers of the platform and the encoder of a session
    \* (useAudioRecorder.ts:271-291, 345-407)
    platformTypes, recorderMime, recorderState, blobType,
    \* the platform the hook runs on (fixed for a behaviour)
    platform,
    \* React state (useAudioRecorder.ts:24-32)
    isRecording, isPaused, recordingTime, audioLevel, error,
    permissionStatus, isCheckingPermissions,
    \* refs (useAudioRecorder.ts:34-40); 0 stands for null
    mediaRecorderRef, audioContextRef, analyserRef, streamRef, chunksRef,
    timerRef, animationRef,
    \* platform objects created by the hook
    stream,        \* stream[k]: capture stream obtained by start k
    released,      \* released[k]: how many times its tracks were stopped
    audioCtx,      \* audioCtx[k]: AudioContext of start k
    rec,           \* rec[k]: MediaRecorder.state of the encoder of start k
    flush,         \* flush[k]: events the platform still owes after stop
    nEvents,       \* nEvents[k]: non-empty chunks encoder k has delivered
    onstop,        \* onstop[k]: the onstop handler installed on encoder k
    blob,          \* blob[k]: the blob stopRecording resolved with
    nTimers,       \* setInterval timers not yet cleared
    nRaf,          \* requestAnimationFrame callbacks not yet run or cancelled
    \* invocations suspended at an await
    startPc,       \* startPc[k]: position of startRecording invocation k
    startLoop,     \* startLoop[k]: isRecording && !isPaused in its closure
    reqPending,    \* requestPermissions calls awaiting getUserMedia
    chkQuery,      \* checkPermissions calls awaiting permissions.query
    chkGum,        \* checkPermissions calls awaiting getUserMedia
    \* Part II: one getAudioDuration call and the store operation awaiting it
    audioBlob,     \* audioBlob.size, in bytes
    user,          \* useAuthStore.getState().user is set
    calls,         \* store operations begun so far
    tracks,        \* track_order of the tracks the track store holds
    caller,        \* the store operation in progress
    newTrack,      \* createTrack: the row it inserts
    callerPc,      \* its position
    resolved,      \* tryAudioElement's `resolved` flag
    listening,     \* the four listeners are on the Audio element
    timeoutArmed,  \* the 5 s timer has not fired yet
    tempRevoked,   \* how often tryAudioElement's URL was revoked
    decoding,      \* tryWebAudioAPI runs awaiting decodeAudioData
    attempts,      \* attempts[s]: how often strategy s was started
    failed,        \* the strategies that have failed so far
    promise,       \* the promise getAudioDuration returned
    currentSession,\* project store: currentSession
    trackSession,  \* track store: the TrackSession of the new track
    trackResult,   \* what createTrack returned
    trackError,    \* track store: error
    urls,          \* urls[u]: how often object URL u was revoked
    \* Part III: the effects panel
    activeEffects,     \* useState<string[]>: the active effects, in order
    processedAudioUrl, \* useState: the processed audio's URL, 0 for null
    isProcessing,      \* useState
    previewSrc,        \* processedAudioRef.src, 0 when never set
    renders,           \* processAudioWithEffects calls awaiting the render
    nRenders,          \* renders begun so far
    applying,          \* applyEffectsToSession calls awaiting fetch
    nApplies,          \* applyEffectsToSession calls begun so far
    graph,             \* graph[u]: the node chain rendered into URL u
    \* Part IV: the multi-track player and the mix fields of the tracks
    trackLen,      \* trackLen[i]: duration_seconds of track i, in seconds
    hasSession,    \* the tracks that have a TrackSession with an audioUrl
    is_muted,      \* is_muted[i]: the track's field in the store
    is_solo,       \* is_solo[i]
    volume,        \* volume[i], in slider steps
    soloing,       \* the soloTrack calls suspended in their loops
    masterVolume,  \* useState(1), in slider steps
    currentTime,   \* useState(0): the playhead
    isPlaying,     \* useState(false)
    duration,      \* useState(0), set by the master duration effect
    elTime,        \* elTime[i]: currentTime of the Audio element of track i
    elPaused,      \* elPaused[i]: its paused attribute
    elMuted,       \* elMuted[i]: its muted attribute
    elVolume,      \* elVolume[i]: its volume, in squared slider steps
    \* Part V: the conversions
    buffer,        \* the AudioBuffer handed to audioBufferToWav
    wav,           \* the bytes of the blob it returned
    \* Part VI: createTrack calls that overlap
    creates,       \* creates[c]: createTrack invocation c
    db,            \* the rows of the tracks table, in commit order
    trackSessions, \* the TrackSessions: the track's id and the object URL
    deletes        \* deletes[d]: deleteTrack invocation d

recState == <<isRecording, isPaused, recordingTime, audioLevel, error,
              permissionStatus, isCheckingPermissions>>
recRefs == <<mediaRecorderRef, audioContextRef, analyserRef, streamRef,
             chunksRef, timerRef, animationRef>>
recObjs == <<stream, released, audioCtx, rec, flush, nEvents, onstop, blob,
             nTimers, nRaf>>
recCalls == <<startPc, startLoop, reqPending, chkQuery, chkGum>>
recVars == <<platform, recState, recRefs, recObjs, recCalls>>

resolverVars == <<resolved, listening, timeoutArmed, tempRevoked, decoding,
                  attempts, failed, promise>>
storeVars == <<currentSession, trackSession, trackResult, trackError, tracks,
               urls>>
callVars == <<audioBlob, user, calls, caller, callerPc, newTrack, storeVars>>
durVars == <<callVars, resolverVars>>

fxVars == <<activeEffects, processedAudioUrl, isProcessing, previewSrc,
            renders, nRenders, applying, nApplies, graph>>

\* the panels beside the recorder and the stores
storeMix == <<trackLen, hasSession, is_muted, is_solo, volume, soloing>>
transport == <<currentTime, isPlaying, duration, elTime, elPaused>>
mixer == <<masterVolume, elMuted, elVolume>>
mixVars == <<storeMix, transport, mixer>>

wavVars == <<buffer, wav>>
overlapVars == <<creates, db, trackSessions>>

\* the parts beside the recorder, the stores and the panels
mimeVars == <<platformTypes, recorderMime, recorderState, blobType>>
aiVars == <<transformation, currentTransformation, checkPc, checkRow,
           statusResponse, updates, pollingActive, cancelPc>>
mediaVars == <<elFailed>>
deleteVars == <<deletes>>
sideVars == <<wavVars, overlapVars, mimeVars, aiVars, mediaVars, deleteVars>>

\* what the conversions leave alone
wavFrame == <<recVars, durVars, fxVars, mixVars, overlapVars, mimeVars, aiVars, mediaVars,
             deleteVars>>

\* what the choice of a container leaves alone
mimeFrame == <<recVars, durVars, fxVars, mixVars, wavVars, overlapVars, aiVars, mediaVars,
              deleteVars>>

\* what a status check leaves alone
aiFrame == <<recVars, durVars, fxVars, mixVars, wavVars, overlapVars, mimeVars, mediaVars,
            deleteVars>>

\* what an overlapping createTrack leaves alone
overlapFrame == <<recVars, fxVars, mixVars, wavVars, mimeVars, aiVars, mediaVars,
                  deleteVars,
                  audioBlob, user, calls, caller, callerPc,
                  newTrack, resolverVars, currentSession, trackSession,
                  trackResult>>

\* what a deleteTrack leaves alone
deleteFrame == <<recVars, fxVars, mixVars, wavVars, mimeVars, aiVars, mediaVars,
                 audioBlob, user, calls, caller, callerPc,
                 newTrack, resolverVars, currentSession, trackSession,
                 trackResult, creates>>

panelVars == <<fxVars, mixVars, sideVars>>

\* what an action of the panel leaves alone in the stores
fxStoreRest == <<audioBlob, user, calls, caller, callerPc, newTrack,
                 resolverVars, trackSession, trackResult, trackError, tracks>>

vars == <<recVars, durVars, fxVars, mixVars, sideVars>>

\* ---------------------------------------------------------------- platform

\* window.isSecureContext, navigator.mediaDevices.getUserMedia and
\* navigator.permissions.
Platforms ==
    { p \in [isSecureContext : BOOLEAN, hasGetUserMedia : BOOLEAN,
             hasPermissions : BOOLEAN] :
        /\ (~p.isSecureContext => ~p.hasGetUserMedia)
        /\ (~p.hasGetUserMedia => ~p.hasPermissions) }

\* error.name of a rejected getUserMedia
GumErrorNames == {"NotAllowedError", "AbortError"}

\* mean of the analyser's byte frequency bins (0..255)
BinMeans == {64, 255}

LiveStreams == {k \in StartIds : stream[k] = "live"}

Min(a, b) == IF a < b THEN a ELSE b

\* useAudioRecorder.ts:49  Math.min(average / 128, 1), kept as level * 128
LevelScale == 128
normalizedLevel(average) == Min(average, LevelScale)

NoBlob == [resolved |-> FALSE, chunks |-> <<>>]

\* -------------------------------------------------------------------- Init

RecInit ==
    /\ platform \in Platforms
    /\ isRecording = FALSE
    /\ isPaused = FALSE
    /\ recordingTime = 0
    /\ audioLevel = 0
    /\ error = "null"
    /\ permissionStatus = "unknown"
    /\ isCheckingPermissions = FALSE
    /\ mediaRecorderRef = 0
    /\ audioContextRef = 0
    /\ analyserRef = 0
    /\ streamRef = 0
    /\ chunksRef = <<>>
    /\ timerRef = FALSE
    /\ animationRef = FALSE
    /\ stream = [k \in StartIds |-> "none"]
    /\ released = [k \in StartIds |-> 0]
    /\ audioCtx = [k \in StartIds |-> "none"]
    /\ rec = [k \in StartIds |-> "none"]
    /\ flush = [k \in StartIds |-> "none"]
    /\ nEvents = [k \in StartIds |-> 0]
    /\ onstop = [k \in StartIds |-> "unset"]
    /\ blob = [k \in StartIds |-> NoBlob]
    /\ nTimers = 0
    /\ nRaf = 0
    /\ startPc = [k \in StartIds |-> "idle"]
    /\ startLoop = [k \in StartIds |-> FALSE]
    /\ reqPending = 0
    /\ chkQuery = 0
    /\ chkGum = 0

\* -------------------------------------------------------- permission gate

\* requestPermissions, catch block (useAudioRecorder.ts:182-233): the
\* remediation message (named by its kind) and the status per error.name.
\* "Error" is the name of the errors the function throws itself
\* (lines 152 and 156).
RequestFailure(name) ==
    CASE name \in {"NotAllowedError", "PermissionDeniedError"} ->
            [error |-> "access-denied", permissionStatus |-> "denied"]
      [] name \in {"NotFoundError", "DevicesNotFoundError"} ->
            [error |-> "no-device-found", permissionStatus |-> "denied"]
      [] name \in {"NotReadableError", "TrackStartError"} ->
            [error |-> "device-busy", permissionStatus |-> "denied"]
      [] name \in {"OverconstrainedError", "ConstraintNotSatisfiedError"} ->
            [error |-> "unsupported-constraints", permissionStatus |-> "prompt"]
      [] name = "NotSupportedError" ->
            [error |-> "not-supported", permissionStatus |-> "denied"]
      [] name = "AbortError" ->
            [error |-> "cancelled", permissionStatus |-> "prompt"]
      [] name = "SecurityError" ->
            [error |-> "insecure-context", permissionStatus |-> "denied"]
      [] OTHER ->
            [error |-> "access-failed", permissionStatus |-> "prompt"]

\* checkPermissions, inner catch (useAudioRecorder.ts:119-128)
CheckFailureStatus(name) ==
    IF name = "NotAllowedError" THEN "denied"
    ELSE IF name = "NotFoundError" THEN "denied"
    ELSE "prompt"

\* Both probes refuse to call getUserMedia when the context is insecure or
\* the API is missing (lines 76-83 and 151-157).
CanProbe == platform.isSecureContext /\ platform.hasGetUserMedia

\* probes awaiting the platform
Probes == reqPending + chkQuery + chkGum

\* requestPermissions up to its await (lines 147-164), called directly.
RequestPermissions ==
    /\ Probes < MaxProbes
    /\ IF CanProbe
       THEN /\ error' = "null"
            /\ isCheckingPermissions' = TRUE
            /\ reqPending' = reqPending + 1
            /\ UNCHANGED permissionStatus
       ELSE /\ error' = RequestFailure("Error").error
            /\ permissionStatus' = RequestFailure("Error").permissionStatus
            /\ isCheckingPermissions' = FALSE
            /\ UNCHANGED reqPending
    /\ UNCHANGED <<durVars, panelVars, platform, isRecording, isPaused, recordingTime,
                   audioLevel,
                   recRefs, recObjs, startPc, startLoop, chkQuery, chkGum>>

\* getUserMedia resolves for a direct requestPermissions (lines 166-181):
\* the stream is stopped at once.
RequestGranted ==
    /\ reqPending > 0
    /\ reqPending' = reqPending - 1
    /\ permissionStatus' = "granted"
    /\ isCheckingPermissions' = FALSE
    /\ error' = "null"
    /\ UNCHANGED <<durVars, panelVars, platform, isRecording, isPaused, recordingTime,
                   audioLevel,
                   recRefs, recObjs, startPc, startLoop, chkQuery, chkGum>>

\* getUserMedia rejects for a direct requestPermissions (lines 182-233).
RequestRefused ==
    /\ reqPending > 0
    /\ \E name \in GumErrorNames :
        /\ error' = RequestFailure(name).error
        /\ permissionStatus' = RequestFailure(name).permissionStatus
    /\ reqPending' = reqPending - 1
    /\ isCheckingPermissions' = FALSE
    /\ UNCHANGED <<durVars, panelVars, platform, isRecording, isPaused, recordingTime,
                   audioLevel,
                   recRefs, recObjs, startPc, startLoop, chkQuery, chkGum>>

\* checkPermissions up to its first await (lines 72-108).
CheckPermissions ==
    /\ Probes < MaxProbes
    /\ IF ~CanProbe
       THEN /\ permissionStatus' = "denied"
            /\ isCheckingPermissions' = FALSE
            /\ error' = IF platform.isSecureContext
                        THEN "browser-unsupported" ELSE "requires-https"
            /\ UNCHANGED <<chkQuery, chkGum>>
       ELSE /\ error' = "null"
            /\ isCheckingPermissions' = TRUE
            /\ UNCHANGED permissionStatus
            /\ IF platform.hasPermissions
               THEN chkQuery' = chkQuery + 1 /\ UNCHANGED chkGum
               ELSE chkGum' = chkGum + 1 /\ UNCHANGED chkQuery
    /\ UNCHANGED <<durVars, panelVars, platform, isRecording, isPaused, recordingTime,
                   audioLevel,
                   recRefs, recObjs, startPc, startLoop, reqPending>>

\* permissions.query resolves (lines 88-94).
CheckQueryResolved ==
    /\ chkQuery > 0
    /\ chkQuery' = chkQuery - 1
    /\ \E st \in {"granted", "denied", "prompt"} : permissionStatus' = st
    /\ isCheckingPermissions' = FALSE
    /\ UNCHANGED <<durVars, panelVars, platform, isRecording, isPaused, recordingTime,
                   audioLevel,
                   error, recRefs, recObjs, startPc, startLoop, reqPending,
                   chkGum>>

\* permissions.query rejects (the 'microphone' name is unknown to the
\* engine): fall through to the getUserMedia probe (lines 95-108).
CheckQueryRejected ==
    /\ chkQuery > 0
    /\ chkQuery' = chkQuery - 1
    /\ chkGum' = chkGum + 1
    /\ UNCHANGED <<durVars, panelVars, platform, recState, recRefs, recObjs, startPc,
                   startLoop,
                   reqPending>>

\* the fallback probe gets a stream and stops it at once (lines 110-118).
CheckGumGranted ==
    /\ chkGum > 0
    /\ chkGum' = chkGum - 1
    /\ permissionStatus' = "granted"
    /\ isCheckingPermissions' = FALSE
    /\ error' = "null"
    /\ UNCHANGED <<durVars, panelVars, platform, isRecording, isPaused, recordingTime,
                   audioLevel,
                   recRefs, recObjs, startPc, startLoop, reqPending, chkQuery>>

\* a refused probe that leaves the checking flag set
CheckGumRefusedStillChecking ==
    /\ chkGum > 0
    /\ chkGum' = chkGum - 1
    /\ \E name \in GumErrorNames : permissionStatus' = CheckFailureStatus(name)
    /\ UNCHANGED <<durVars, panelVars, platform, isRecording, isPaused, recordingTime,
                   audioLevel, isCheckingPermissions,
                   error, recRefs, recObjs, startPc, startLoop, reqPending,
                   chkQuery>>

\* the fallback probe is refused (lines 119-135).
CheckGumRefused ==
    /\ chkGum > 0
    /\ chkGum' = chkGum - 1
    /\ \E name \in GumErrorNames : permissionStatus' = CheckFailureStatus(name)
    /\ isCheckingPermissions' = FALSE
    /\ UNCHANGED <<durVars, panelVars, platform, isRecording, isPaused, recordingTime,
                   audioLevel,
                   error, recRefs, recObjs, startPc, startLoop, reqPending,
                   chkQuery>>

\* ------------------------------------------------------- recorder helpers

\* startRecording, catch block (useAudioRecorder.ts:320-342), by error.name.
StartFailure(name) ==
    CASE name = "NotAllowedError" -> "start-denied"
      [] name = "NotFoundError" -> "start-no-microphone"
      [] name = "NotReadableError" -> "start-busy"
      [] name = "OverconstrainedError" -> "start-unsupported"
      [] OTHER -> "start-failed"

\* the invocation the next startRecording call gets
NextStart == CHOOSE k \in StartIds :
                 /\ startPc[k] = "idle"
                 /\ \A j \in StartIds : j < k => startPc[j] # "idle"

\* updateAudioLevel reschedules itself iff its closure saw
\* isRecording && !isPaused (useAudioRecorder.ts:53-55).
Reschedules(closureRecording, closurePaused) ==
    closureRecording /\ ~closurePaused

\* startTimer (useAudioRecorder.ts:58-62): a new interval overwrites timerRef.
StartTimer ==
    /\ nTimers' = nTimers + 1
    /\ timerRef' = TRUE

\* stopTimer (useAudioRecorder.ts:64-69): clears the interval timerRef holds.
StopTimer ==
    /\ nTimers' = IF timerRef THEN nTimers - 1 ELSE nTimers
    /\ timerRef' = FALSE

\* cancelAnimationFrame of the callback animationRef holds
\* (useAudioRecorder.ts:362-365 and 394-397).
CancelAnimation ==
    /\ nRaf' = IF animationRef THEN nRaf - 1 ELSE nRaf
    /\ animationRef' = FALSE

\* ---------------------------------------------------------- startRecording

\* startRecording up to its first await (useAudioRecorder.ts:238-259).
StartRecording ==
    /\ \E k \in StartIds : startPc[k] = "idle"
    /\ LET k == NextStart IN
       /\ startLoop' = [startLoop EXCEPT
                           ![k] = Reschedules(isRecording, isPaused)]
       /\ IF permissionStatus # "granted"
          THEN \* requestPermissions() is entered (lines 147-157)
               IF CanProbe
               THEN /\ error' = "null"
                    /\ isCheckingPermissions' = TRUE
                    /\ UNCHANGED permissionStatus
                    /\ startPc' = [startPc EXCEPT ![k] = "awaitPermission"]
               ELSE /\ error' = RequestFailure("Error").error
                    /\ permissionStatus' =
                           RequestFailure("Error").permissionStatus
                    /\ isCheckingPermissions' = FALSE
                    /\ startPc' = [startPc EXCEPT ![k] = "done"]
          ELSE IF platform.hasGetUserMedia
               THEN /\ error' = "null"
                    /\ UNCHANGED <<permissionStatus, isCheckingPermissions>>
                    /\ startPc' = [startPc EXCEPT ![k] = "awaitStream"]
               ELSE \* navigator.mediaDevices is undefined: TypeError
                    /\ error' = StartFailure("TypeError")
                    /\ UNCHANGED <<permissionStatus, isCheckingPermissions>>
                    /\ startPc' = [startPc EXCEPT ![k] = "done"]
    /\ UNCHANGED <<durVars, panelVars, platform, isRecording, isPaused, recordingTime,
                   audioLevel,
                   recRefs, recObjs, reqPending, chkQuery, chkGum>>

\* the requestPermissions inside startRecording gets its stream, stops it
\* and returns true; startRecording goes on to its own getUserMedia
\* (lines 166-181, 243-252).
StartPermissionGranted(k) ==
    /\ startPc[k] = "awaitPermission"
    /\ startPc' = [startPc EXCEPT ![k] = "awaitStream"]
    /\ permissionStatus' = "granted"
    /\ isCheckingPermissions' = FALSE
    /\ error' = "null"
    /\ UNCHANGED <<durVars, panelVars, platform, isRecording, isPaused, recordingTime,
                   audioLevel,
                   recRefs, recObjs, startLoop, reqPending, chkQuery, chkGum>>

\* a gate that goes on to getUserMedia after a refusal
StartPermissionRefusedGoesOn(k) ==
    /\ startPc[k] = "awaitPermission"
    /\ startPc' = [startPc EXCEPT ![k] = "awaitStream"]
    /\ \E name \in GumErrorNames :
        /\ error' = RequestFailure(name).error
        /\ permissionStatus' = RequestFailure(name).permissionStatus
    /\ isCheckingPermissions' = FALSE
    /\ UNCHANGED <<durVars, panelVars, platform, isRecording, isPaused, recordingTime,
                   audioLevel,
                   recRefs, recObjs, startLoop, reqPending, chkQuery, chkGum>>

\* ... or is refused: startRecording returns (lines 182-233, 244-246).
StartPermissionRefused(k) ==
    /\ startPc[k] = "awaitPermission"
    /\ startPc' = [startPc EXCEPT ![k] = "done"]
    /\ \E name \in GumErrorNames :
        /\ error' = RequestFailure(name).error
        /\ permissionStatus' = RequestFailure(name).permissionStatus
    /\ isCheckingPermissions' = FALSE
    /\ UNCHANGED <<durVars, panelVars, platform, isRecording, isPaused, recordingTime,
                   audioLevel,
                   recRefs, recObjs, startLoop, reqPending, chkQuery, chkGum>>

\* startRecording's own getUserMedia rejects (lines 320-342).
StartStreamRefused(k) ==
    /\ startPc[k] = "awaitStream"
    /\ startPc' = [startPc EXCEPT ![k] = "done"]
    /\ \E name \in GumErrorNames : error' = StartFailure(name)
    /\ UNCHANGED <<durVars, panelVars, platform, isRecording, isPaused, recordingTime,
                   audioLevel,
                   permissionStatus, isCheckingPermissions, recRefs, recObjs,
                   startLoop, reqPending, chkQuery, chkGum>>

\* How far startRecording gets once it has the stream: the AudioContext
\* constructor, the MediaRecorder constructor and MediaRecorder.start can
\* each throw.
StartOutcomes == {"contextThrows", "recorderThrows", "startThrows", "started"}

\* startRecording's getUserMedia resolves (lines 261-319, and the catch
\* block 320-342 when a later step throws).
StartStreamGranted(k) ==
    /\ startPc[k] = "awaitStream"
    /\ startPc' = [startPc EXCEPT ![k] = "done"]
    /\ stream' = [stream EXCEPT ![k] = "live"]
    /\ streamRef' = k
    /\ \E outcome \in StartOutcomes :
        LET hasContext == outcome # "contextThrows"
            hasRecorder == outcome \in {"startThrows", "started"}
            started == outcome = "started"
        IN
        /\ audioCtx' = IF hasContext THEN [audioCtx EXCEPT ![k] = "open"]
                       ELSE audioCtx
        /\ audioContextRef' = IF hasContext THEN k ELSE audioContextRef
        /\ analyserRef' = IF hasContext THEN k ELSE analyserRef
        /\ mediaRecorderRef' = IF hasRecorder THEN k ELSE mediaRecorderRef
        /\ chunksRef' = IF hasRecorder THEN <<>> ELSE chunksRef
        /\ rec' = IF started THEN [rec EXCEPT ![k] = "recording"]
                  ELSE IF hasRecorder THEN [rec EXCEPT ![k] = "inactive"]
                  ELSE rec
        /\ IF started
           THEN /\ StartTimer
                \* updateAudioLevel() with the closure of this invocation
                /\ \E average \in BinMeans :
                       audioLevel' = normalizedLevel(average)
                /\ IF startLoop[k]
                   THEN nRaf' = nRaf + 1 /\ animationRef' = TRUE
                   ELSE UNCHANGED <<nRaf, animationRef>>
                /\ isRecording' = TRUE
                /\ isPaused' = FALSE
                /\ recordingTime' = 0
                /\ UNCHANGED error
           ELSE /\ error' = StartFailure("Error")
                /\ UNCHANGED <<nTimers, timerRef, nRaf, animationRef,
                               audioLevel, isRecording, isPaused,
                               recordingTime>>
    /\ UNCHANGED <<durVars, panelVars, platform, permissionStatus, isCheckingPermissions,
                   released, flush, nEvents, onstop, blob,
                   startLoop, reqPending, chkQuery, chkGum>>

\* ----------------------------------------------------------- stopRecording

\* MediaRecorder.stop() on an inactive recorder: engines that follow the
\* older MediaStream Recording drafts throw InvalidStateError, the current
\* specification returns silently.  `engineThrows` is the engine's choice.
StopThrows(engineThrows) ==
    /\ mediaRecorderRef # 0
    /\ rec[mediaRecorderRef] = "inactive"
    /\ engineThrows

\* What the promise stopRecording returns does (useAudioRecorder.ts:347-359):
\* resolved with null, rejected because stop() threw inside the executor,
\* never settled because no stop event will come, or pending on onstop.
StopResult(engineThrows) ==
    IF mediaRecorderRef = 0 THEN "null"
    ELSE IF StopThrows(engineThrows) THEN "rejected"
    ELSE IF rec[mediaRecorderRef] = "inactive" /\ flush[mediaRecorderRef] = "none"
         THEN "hangs"
    ELSE "pending"

\* stopRecording reaches its cleanup and its setState (lines 360-385).
StopCompletes(engineThrows) ==
    StopResult(engineThrows) \in {"hangs", "pending"}

\* What stopRecording does to the refs and the platform objects
\* (useAudioRecorder.ts:347-378); its setState is left to the caller.
\* `handler` tells whose promise the new onstop handler settles: "caller"
\* when the promise is returned to the caller of stopRecording, "dropped"
\* when resetRecording made the call and dropped the promise.  A handler
\* whose promise was rejected at line 359 is "dead".
StopBody(engineThrows, handler) ==
    IF ~StopCompletes(engineThrows)
    THEN /\ onstop' = IF mediaRecorderRef = 0 THEN onstop
                      ELSE [onstop EXCEPT ![mediaRecorderRef] = "dead"]
         /\ UNCHANGED <<rec, flush, nTimers, timerRef, nRaf, animationRef,
                        stream, released, streamRef, audioCtx,
                        audioContextRef>>
    ELSE LET k == mediaRecorderRef IN
         /\ onstop' = [onstop EXCEPT ![k] = handler]
         /\ IF rec[k] = "inactive"
            THEN UNCHANGED <<rec, flush>>
            ELSE /\ rec' = [rec EXCEPT ![k] = "inactive"]
                 /\ flush' = [flush EXCEPT ![k] = "data"]
         /\ StopTimer
         /\ CancelAnimation
         /\ IF streamRef # 0
            THEN /\ stream' = [stream EXCEPT ![streamRef] = "released"]
                 /\ released' = [released EXCEPT ![streamRef] = @ + 1]
            ELSE UNCHANGED <<stream, released>>
         /\ streamRef' = 0
         /\ IF audioContextRef # 0
            THEN audioCtx' = [audioCtx EXCEPT ![audioContextRef] = "closed"]
            ELSE UNCHANGED audioCtx
         /\ audioContextRef' = 0

\* stopRecording (useAudioRecorder.ts:346-387).
StopRecording ==
    /\ \E engineThrows \in BOOLEAN :
        /\ StopBody(engineThrows, "caller")
        /\ IF StopCompletes(engineThrows)
           THEN /\ isRecording' = FALSE
                /\ isPaused' = FALSE
                /\ audioLevel' = 0
           ELSE UNCHANGED <<isRecording, isPaused, audioLevel>>
    /\ UNCHANGED <<durVars, panelVars, platform, recordingTime, error, permissionStatus,
                   isCheckingPermissions, mediaRecorderRef, analyserRef,
                   chunksRef, nEvents, blob, recCalls>>

\* resetRecording (useAudioRecorder.ts:412-427).
ResetRecording ==
    /\ IF isRecording
       THEN \E engineThrows \in BOOLEAN : StopBody(engineThrows, "dropped")
       ELSE UNCHANGED <<rec, flush, onstop, nTimers, timerRef, nRaf,
                        animationRef, stream, released, streamRef, audioCtx,
                        audioContextRef>>
    /\ isRecording' = FALSE
    /\ isPaused' = FALSE
    /\ recordingTime' = 0
    /\ audioLevel' = 0
    /\ error' = "null"
    /\ chunksRef' = <<>>
    /\ UNCHANGED <<durVars, panelVars, platform, permissionStatus, isCheckingPermissions,
                   mediaRecorderRef, analyserRef, nEvents, blob, recCalls>>

\* --------------------------------------------------------- pause / resume

\* pauseRecording (useAudioRecorder.ts:389-401).  MediaRecorder.pause()
\* throws InvalidStateError on an inactive recorder: the handler is left
\* before it changed anything.
PauseRecording ==
    /\ IF mediaRecorderRef # 0 /\ isRecording
          /\ rec[mediaRecorderRef] # "inactive"
       THEN /\ rec' = [rec EXCEPT ![mediaRecorderRef] = "paused"]
            /\ StopTimer
            /\ CancelAnimation
            /\ isPaused' = TRUE
       ELSE UNCHANGED <<rec, nTimers, timerRef, nRaf, animationRef, isPaused>>
    /\ UNCHANGED <<durVars, panelVars, platform, isRecording, recordingTime, audioLevel, error,
                   permissionStatus, isCheckingPermissions, mediaRecorderRef,
                   audioContextRef, analyserRef, streamRef, chunksRef, stream,
                   released, audioCtx, flush, nEvents, onstop, blob,
                   recCalls>>

\* resumeRecording (useAudioRecorder.ts:403-410).  MediaRecorder.resume()
\* throws InvalidStateError on an inactive recorder.  Its updateAudioLevel
\* is the one of the render it was created in, where isPaused is true.
ResumeRecording ==
    /\ IF mediaRecorderRef # 0 /\ isPaused
          /\ rec[mediaRecorderRef] # "inactive"
       THEN /\ rec' = [rec EXCEPT ![mediaRecorderRef] = "recording"]
            /\ StartTimer
            /\ IF analyserRef # 0
               THEN /\ \E average \in BinMeans :
                        audioLevel' = normalizedLevel(average)
                    /\ IF Reschedules(isRecording, isPaused)
                       THEN nRaf' = nRaf + 1 /\ animationRef' = TRUE
                       ELSE UNCHANGED <<nRaf, animationRef>>
               ELSE UNCHANGED <<audioLevel, nRaf, animationRef>>
            /\ isPaused' = FALSE
       ELSE UNCHANGED <<rec, nTimers, timerRef, nRaf, animationRef, isPaused,
                        audioLevel>>
    /\ UNCHANGED <<durVars, panelVars, platform, isRecording, recordingTime, error,
                   permissionStatus, isCheckingPermissions, mediaRecorderRef,
                   audioContextRef, analyserRef, streamRef, chunksRef, stream,
                   released, audioCtx, flush, nEvents, onstop, blob,
                   recCalls>>

\* --------------------------------------------------------- platform events

\* ondataavailable (useAudioRecorder.ts:294-298): a non-empty chunk goes
\* to the array chunksRef holds when the event fires.  Chunk <<k, i>> is the
\* i-th non-empty chunk of encoder k.
Push(k) ==
    /\ nEvents' = [nEvents EXCEPT ![k] = @ + 1]
    /\ chunksRef' = Append(chunksRef, <<k, nEvents[k] + 1>>)

\* a 100 ms timeslice of encoder k is ready (start(100), line 308); an
\* empty one is dropped by line 295 and changes nothing
DataAvailable(k) ==
    /\ rec[k] = "recording"
    /\ nEvents[k] < MaxChunks
    /\ Push(k)
    /\ UNCHANGED <<durVars, panelVars, platform, recState, mediaRecorderRef, audioContextRef,
                   analyserRef, streamRef, timerRef, animationRef, stream,
                   released, audioCtx, rec, flush, onstop, blob, nTimers,
                   nRaf, recCalls>>

\* after stop() or an error the platform fires a last dataavailable with
\* what the encoder still holds (possibly nothing) ...
FinalData(k) ==
    /\ flush[k] = "data"
    /\ flush' = [flush EXCEPT ![k] = "stop"]
    /\ \E nonEmpty \in BOOLEAN :
           IF nonEmpty THEN Push(k) ELSE UNCHANGED <<nEvents, chunksRef>>
    /\ UNCHANGED <<durVars, panelVars, platform, recState, mediaRecorderRef, audioContextRef,
                   analyserRef, streamRef, timerRef, animationRef, stream,
                   released, audioCtx, rec, onstop, blob, nTimers, nRaf,
                   recCalls>>

\* ... and then the stop event: onstop assembles the blob from the array
\* chunksRef holds now and resolves the promise (lines 353-357).
StopEvent(k) ==
    /\ flush[k] = "stop"
    /\ flush' = [flush EXCEPT ![k] = "none"]
    /\ blob' = IF onstop[k] = "caller"
               THEN [blob EXCEPT ![k] = [resolved |-> TRUE, chunks |-> chunksRef]]
               ELSE blob
    /\ onstop' = IF onstop[k] = "unset" THEN onstop
                 ELSE [onstop EXCEPT ![k] = "fired"]
    /\ UNCHANGED <<durVars, panelVars, platform, recState, recRefs, stream, released, audioCtx,
                   rec, nEvents, nTimers, nRaf, recCalls>>

\* the encoder fails: it becomes inactive and fires error, then the last
\* dataavailable and stop; onerror only records the message (lines 300-306).
EncoderError(k) ==
    /\ rec[k] \in {"recording", "paused"}
    /\ rec' = [rec EXCEPT ![k] = "inactive"]
    /\ flush' = [flush EXCEPT ![k] = "data"]
    /\ error' = "recording-error"
    /\ UNCHANGED <<durVars, panelVars, platform, isRecording, isPaused, recordingTime,
                   audioLevel,
                   permissionStatus, isCheckingPermissions, recRefs, stream,
                   released, audioCtx, nEvents, onstop, blob,
                   nTimers, nRaf, recCalls>>

\* an interval created by startTimer fires (useAudioRecorder.ts:59-61)
TimerTick ==
    /\ nTimers > 0
    /\ recordingTime < MaxTime
    /\ recordingTime' = recordingTime + 1
    /\ UNCHANGED <<durVars, panelVars, platform, isRecording, isPaused, audioLevel, error,
                   permissionStatus, isCheckingPermissions, recRefs, recObjs,
                   recCalls>>

\* a scheduled updateAudioLevel runs on a display refresh
\* (useAudioRecorder.ts:42-56); only callbacks whose closure reschedules
\* were ever scheduled, so it schedules its successor.
AnimationFrame ==
    /\ nRaf > 0
    /\ analyserRef # 0
    /\ \E average \in BinMeans : audioLevel' = normalizedLevel(average)
    /\ animationRef' = TRUE
    /\ UNCHANGED <<durVars, panelVars, platform, isRecording, isPaused, recordingTime, error,
                   permissionStatus, isCheckingPermissions, mediaRecorderRef,
                   audioContextRef, analyserRef, streamRef, chunksRef,
                   timerRef, recObjs, recCalls>>

\* ----------------------------------------------------- recorder behaviours

\* requestPermissions and checkPermissions called directly
GateNext ==
    \/ RequestPermissions
    \/ RequestGranted
    \/ RequestRefused
    \/ CheckPermissions
    \/ CheckQueryResolved
    \/ CheckQueryRejected
    \/ CheckGumGranted
    \/ CheckGumRefused

\* the recording handlers and the events of a healthy encoder
RecorderNext ==
    \/ StartRecording
    \/ \E k \in StartIds : StartPermissionGranted(k)
    \/ \E k \in StartIds : StartPermissionRefused(k)
    \/ \E k \in StartIds : StartStreamRefused(k)
    \/ \E k \in StartIds : StartStreamGranted(k)
    \/ StopRecording
    \/ ResetRecording
    \/ PauseRecording
    \/ ResumeRecording
    \/ \E k \in StartIds : DataAvailable(k)
    \/ \E k \in StartIds : FinalData(k)
    \/ \E k \in StartIds : StopEvent(k)
    \/ TimerTick
    \/ AnimationFrame

FaultNext == \E k \in StartIds : EncoderError(k)

\* ==================================================== Part II: durations

\* A duration in seconds is kept as a number of UnitsPerSecond-ths, so
\* that size * 8 / (128 * 1000) is exact: one byte is one unit.
NominalBitrate == 128 * 1000
UnitsPerSecond == NominalBitrate \div 8

NaN == [kind |-> "NaN", v |-> 0]
Infinity == [kind |-> "Infinity", v |-> 0]
Seconds(n) == [kind |-> "number", v |-> n * UnitsPerSecond]
Units(n) == [kind |-> "number", v |-> n]

\* JavaScript's isFinite(d), d > 0, a < b and truthiness on these values
isFinite(d) == d.kind = "number"
Positive(d) == d.kind = "Infinity" \/ (d.kind = "number" /\ d.v > 0)
Truthy(d) == d.kind = "Infinity" \/ (d.kind = "number" /\ d.v # 0)
Less(a, b) ==
    /\ a.kind # "NaN" /\ b.kind # "NaN"
    /\ a.kind # "Infinity"
    /\ (b.kind = "Infinity" \/ a.v < b.v)

\* blob sizes in bytes: empty, tiny, one second's worth, and both sides of
\* the one-hour limit of the estimate
Sizes == {0, 1, 16000, 57599999, 57600000}

\* audio.duration as the element may report it; an in-memory recording
\* without a seek table reports Infinity
ElementDurations == {NaN, Infinity, Seconds(0), Seconds(2)}

\* AudioBuffer.duration of a decoded buffer
DecodedDurations == {Seconds(0), Seconds(3)}

Strategies == {"element", "decode", "size"}

\* check_track_limit / createTrack: tracks per project
\* (src/src/stores/aiStore.ts:671)
TrackLimit == 10

Pending == [state |-> "pending", value |-> NaN]

\* a value that may be null is a sequence of at most one element
null == <<>>

DurInit ==
    /\ audioBlob \in Sizes
    /\ user \in BOOLEAN
    /\ tracks \in {<<>>, [i \in 1..TrackLimit |->
                              [track_order |-> i,
                               duration_seconds |-> Seconds(1),
                               audio_url |-> 0]]}
    /\ calls = 0
    /\ caller = "none"
    /\ newTrack = null
    /\ callerPc = "idle"
    /\ resolved = FALSE
    /\ listening = FALSE
    /\ timeoutArmed = FALSE
    /\ tempRevoked = 0
    /\ decoding = 0
    /\ attempts = [s \in Strategies |-> 0]
    /\ failed = {}
    /\ promise = Pending
    /\ currentSession = null
    /\ trackSession = null
    /\ trackResult = "none"
    /\ trackError = "null"
    /\ urls = <<>>

\* the effects panel as mounted (part_005:37-75)
FxInit ==
    /\ activeEffects = <<>>
    /\ processedAudioUrl = 0
    /\ isProcessing = FALSE
    /\ previewSrc = 0
    /\ renders = {}
    /\ nRenders = 0
    /\ applying = {}
    /\ nApplies = 0
    /\ graph = <<>>

\* ------------------------------------------------------- getAudioDuration

\* resolve(d) / reject(): only the first settlement of a promise counts
Resolve(d) ==
    promise' = IF promise.state = "pending"
               THEN [state |-> "fulfilled", value |-> d] ELSE promise
Reject ==
    promise' = IF promise.state = "pending"
               THEN [state |-> "rejected", value |-> NaN] ELSE promise

\* (audioBlob.size * 8) / (128 * 1000)   (projectStore.ts:192)
estimatedDuration(size) == Units((size * 8) \div (NominalBitrate \div UnitsPerSecond))

\* the acceptance test with the one-hour limit included (<= 3600): what
\* the resolver must not do for the size window to end below 57,600,000
EstimateAcceptedInclusive(d) == Positive(d) /\ ~Less(Seconds(3600), d)

\* estimatedDuration > 0 && estimatedDuration < 3600   (projectStore.ts:196)
EstimateAccepted(d) == Positive(d) /\ Less(d, Seconds(3600))

\* tryEstimateFromSize (projectStore.ts:186-201), reached because the
\* strategies in `because` have just failed
tryEstimateFromSize(because) ==
    /\ attempts' = [attempts EXCEPT !["size"] = @ + 1]
    /\ IF EstimateAccepted(estimatedDuration(audioBlob))
       THEN /\ Resolve(estimatedDuration(audioBlob))
            /\ failed' = failed \cup because
       ELSE /\ Reject
            /\ failed' = failed \cup because \cup {"size"}

\* tryWebAudioAPI up to decodeAudioData (projectStore.ts:158-165), reached
\* because the element strategy has just failed
tryWebAudioAPI ==
    /\ attempts' = [attempts EXCEPT !["decode"] = @ + 1]
    /\ decoding' = decoding + 1
    /\ failed' = failed \cup {"element"}

\* getAudioDuration: tryAudioElement up to audio.load()
\* (projectStore.ts:74-156, 204).  Every call has its own closure: what an
\* earlier call still has pending cannot touch this one.
getAudioDuration ==
    /\ resolved' = FALSE
    /\ listening' = TRUE
    /\ timeoutArmed' = TRUE
    /\ tempRevoked' = 0
    /\ decoding' = 0
    /\ attempts' = [s \in Strategies |-> IF s = "element" THEN 1 ELSE 0]
    /\ failed' = {}
    /\ promise' = Pending

\* cleanup (projectStore.ts:84-92): the URL is revoked and the listeners
\* go only while `resolved` is still false
cleanup ==
    /\ listening' = IF ~resolved THEN FALSE ELSE listening
    /\ tempRevoked' = IF ~resolved THEN tempRevoked + 1 ELSE tempRevoked

\* resolveWithDuration (projectStore.ts:94-108): `resolved` is set before
\* cleanup runs
resolveWithDuration(d) ==
    IF resolved
    THEN UNCHANGED <<resolved, promise, attempts, decoding, failed>>
    ELSE /\ resolved' = TRUE
         /\ IF isFinite(d) /\ Positive(d)
            THEN Resolve(d) /\ UNCHANGED <<attempts, decoding, failed>>
            ELSE tryWebAudioAPI /\ UNCHANGED promise

\* onLoadedMetadata / onDurationChange / onCanPlayThrough
\* (projectStore.ts:110-129)
ElementEvent ==
    /\ listening
    /\ \E d \in ElementDurations :
        IF Truthy(d) /\ isFinite(d) /\ Positive(d)
        THEN resolveWithDuration(d)
        ELSE UNCHANGED <<resolved, promise, attempts, decoding, failed>>
    /\ UNCHANGED <<listening, timeoutArmed, tempRevoked>>
    /\ UNCHANGED <<recVars, panelVars, callVars>>

\* onError (projectStore.ts:131-137)
ElementError ==
    /\ listening
    /\ IF ~resolved
       THEN cleanup /\ tryWebAudioAPI
       ELSE UNCHANGED <<listening, tempRevoked, attempts, decoding, failed>>
    /\ UNCHANGED <<resolved, timeoutArmed, promise>>
    /\ UNCHANGED <<recVars, panelVars, callVars>>

\* the 5 s timer fires (projectStore.ts:140-146); nothing ever clears it
ElementTimeout ==
    /\ timeoutArmed
    /\ timeoutArmed' = FALSE
    /\ IF ~resolved
       THEN cleanup /\ tryWebAudioAPI
       ELSE UNCHANGED <<listening, tempRevoked, attempts, decoding, failed>>
    /\ UNCHANGED <<resolved, promise>>
    /\ UNCHANGED <<recVars, panelVars, callVars>>

\* decodeAudioData resolves (projectStore.ts:166-178)
Decoded ==
    /\ decoding > 0
    /\ decoding' = decoding - 1
    /\ \E d \in DecodedDurations :
        IF isFinite(d) /\ Positive(d)
        THEN Resolve(d) /\ UNCHANGED <<attempts, failed>>
        ELSE tryEstimateFromSize({"decode"})
    /\ UNCHANGED <<resolved, listening, timeoutArmed, tempRevoked>>
    /\ UNCHANGED <<recVars, panelVars, callVars>>

\* arrayBuffer() or decodeAudioData rejects (projectStore.ts:180-183)
DecodeFailed ==
    /\ decoding > 0
    /\ decoding' = decoding - 1
    /\ tryEstimateFromSize({"decode"})
    /\ UNCHANGED <<resolved, listening, timeoutArmed, tempRevoked>>
    /\ UNCHANGED <<recVars, panelVars, callVars>>

ResolverNext ==
    \/ ElementEvent
    \/ ElementError
    \/ ElementTimeout
    \/ Decoded
    \/ DecodeFailed

\* ----------------------------------------------------------- store callers

\* URL.createObjectURL(blob): the URL it returns, and the registry after it
createObjectURL == Len(urls) + 1
Created == Append(urls, 0)

\* URL.revokeObjectURL(u): the registry after it
Revoked(registry, u) == [registry EXCEPT ![u] = @ + 1]

\* The effects panel when currentSession?.id changes (part_005:88-94): the
\* effect revokes processedAudioUrl and sets it to null, and the change
\* of processedAudioUrl runs the cleanup of the effect of lines 80-86,
\* which revokes the same URL again.
SessionChanged(registry) ==
    /\ processedAudioUrl' = 0
    /\ urls' = IF processedAudioUrl # 0
               THEN Revoked(Revoked(registry, processedAudioUrl),
                            processedAudioUrl)
               ELSE registry
    /\ UNCHANGED <<activeEffects, isProcessing, previewSrc, renders, nRenders,
                   applying, nApplies, graph>>

\* Math.max(a, b) on durations
MaxDuration(a, b) == IF Less(a, b) THEN b ELSE a

\* an operation of the stores may begin
Free == callerPc \in {"idle", "done"} /\ calls < MaxCalls

\* createSession up to its await (projectStore.ts:342-345)
CreateSession ==
    /\ Free
    /\ calls' = calls + 1
    /\ caller' = "createSession"
    /\ callerPc' = "awaitDuration"
    /\ getAudioDuration
    /\ UNCHANGED <<recVars, panelVars, audioBlob, user, newTrack, storeVars>>

\* ... the duration arrived (projectStore.ts:347-362)
SessionCreated ==
    /\ caller = "createSession" /\ callerPc = "awaitDuration"
    /\ promise.state = "fulfilled"
    /\ callerPc' = "done"
    /\ currentSession' = <<[id |-> calls, duration |-> promise.value,
                             estimated |-> FALSE,
                             audioUrl |-> createObjectURL]>>
    /\ SessionChanged(Created)
    /\ UNCHANGED <<recVars, mixVars, sideVars, audioBlob, user, calls, caller, newTrack,
                   resolverVars, trackSession, trackResult, trackError,
                   tracks>>

\* ... getAudioDuration rejected: the catch block estimates
\* Math.max(1, size * 8 / (128 * 1000))   (projectStore.ts:363-384)
SessionEstimated ==
    /\ caller = "createSession" /\ callerPc = "awaitDuration"
    /\ promise.state = "rejected"
    /\ callerPc' = "done"
    /\ currentSession' =
           <<[id |-> calls,
              duration |-> MaxDuration(Seconds(1),
                                       estimatedDuration(audioBlob)),
              estimated |-> TRUE, audioUrl |-> createObjectURL]>>
    /\ SessionChanged(Created)
    /\ UNCHANGED <<recVars, mixVars, sideVars, audioBlob, user, calls, caller, newTrack,
                   resolverVars, trackSession, trackResult, trackError,
                   tracks>>

\* Math.max(0, ...existingTracks.map(t => t.track_order))  (aiStore.ts:682)
maxOrder ==
    IF tracks = <<>> THEN 0
    ELSE CHOOSE m \in {tracks[i].track_order : i \in 1..Len(tracks)} \cup {0} :
             \A i \in 1..Len(tracks) : tracks[i].track_order <= m

\* createTrack up to its first await (aiStore.ts:662-676)
CreateTrack ==
    /\ Free
    /\ calls' = calls + 1
    /\ caller' = "createTrack"
    /\ newTrack' = null
    /\ IF ~user
       THEN /\ callerPc' = "done"
            /\ trackResult' = "null"
            /\ UNCHANGED <<trackError, resolverVars>>
       ELSE IF Len(tracks) >= TrackLimit
       THEN /\ callerPc' = "done"
            /\ trackResult' = "null"
            /\ trackError' = "track-limit"
            /\ UNCHANGED resolverVars
       ELSE /\ callerPc' = "awaitDuration"
            /\ trackResult' = "none"
            /\ trackError' = "null"
            /\ getAudioDuration
    /\ UNCHANGED <<recVars, panelVars, audioBlob, user, currentSession, trackSession,
                   tracks, urls>>

\* ... the duration arrived: the row is sent to the database
\* (aiStore.ts:678-703)
TrackInsert ==
    /\ caller = "createTrack" /\ callerPc = "awaitDuration"
    /\ promise.state = "fulfilled"
    /\ callerPc' = "awaitInsert"
    /\ newTrack' = <<[track_order |-> maxOrder + 1,
                      duration_seconds |-> promise.value,
                      audio_url |-> createObjectURL]>>
    /\ urls' = Created
    /\ UNCHANGED <<recVars, panelVars, audioBlob, user, calls, caller, resolverVars,
                   currentSession, trackSession, trackResult, trackError,
                   tracks>>

\* ... getAudioDuration rejected: the catch block of createTrack
\* (aiStore.ts:723-727)
TrackDurationFailed ==
    /\ caller = "createTrack" /\ callerPc = "awaitDuration"
    /\ promise.state = "rejected"
    /\ callerPc' = "done"
    /\ trackError' = "duration-failed"
    /\ trackResult' = "null"
    /\ UNCHANGED <<recVars, panelVars, audioBlob, user, calls, caller, newTrack,
                   resolverVars, currentSession, trackSession, tracks, urls>>

\* ... the insert succeeded; createTrackSession asks for the duration again
\* (aiStore.ts:705-720, 813-815)
TrackInserted ==
    /\ caller = "createTrack" /\ callerPc = "awaitInsert"
    /\ callerPc' = "awaitSessionDuration"
    /\ tracks' = Append(tracks, newTrack[1])
    /\ getAudioDuration
    /\ UNCHANGED <<recVars, panelVars, audioBlob, user, calls, caller, newTrack,
                   currentSession, trackSession, trackResult, trackError,
                   urls>>

\* ... the insert failed (aiStore.ts:705, 723-727)
TrackInsertFailed ==
    /\ caller = "createTrack" /\ callerPc = "awaitInsert"
    /\ callerPc' = "done"
    /\ trackError' = "insert-failed"
    /\ trackResult' = "null"
    /\ UNCHANGED <<recVars, panelVars, audioBlob, user, calls, caller, newTrack,
                   resolverVars, currentSession, trackSession, tracks, urls>>

\* createTrackSession got its duration (aiStore.ts:816-829)
TrackSessionCreated ==
    /\ caller = "createTrack" /\ callerPc = "awaitSessionDuration"
    /\ promise.state = "fulfilled"
    /\ callerPc' = "done"
    /\ trackSession' = <<[duration |-> promise.value,
                           audioUrl |-> createObjectURL]>>
    /\ urls' = Created
    /\ trackResult' = "track"
    /\ UNCHANGED <<recVars, panelVars, audioBlob, user, calls, caller, newTrack,
                   resolverVars, currentSession, trackError, tracks>>

\* createTrackSession: getAudioDuration rejected, which is only logged
\* (aiStore.ts:830-832); createTrack returns the track
TrackSessionFailed ==
    /\ caller = "createTrack" /\ callerPc = "awaitSessionDuration"
    /\ promise.state = "rejected"
    /\ callerPc' = "done"
    /\ trackResult' = "track"
    /\ UNCHANGED <<recVars, panelVars, audioBlob, user, calls, caller, newTrack,
                   resolverVars, currentSession, trackSession, trackError,
                   tracks, urls>>

\* clearSession (projectStore.ts:396-402)
ClearSession ==
    /\ currentSession # null
    /\ SessionChanged(Revoked(urls, currentSession[1].audioUrl))
    /\ currentSession' = null
    /\ UNCHANGED <<recVars, mixVars, sideVars, fxStoreRest>>

StoreNext ==
    \/ CreateSession
    \/ SessionCreated
    \/ SessionEstimated
    \/ CreateTrack
    \/ TrackInsert
    \/ TrackDurationFailed
    \/ TrackInserted
    \/ TrackInsertFailed
    \/ TrackSessionCreated
    \/ TrackSessionFailed
    \/ ClearSession

\* ============================================== Part III: effects panel

\* the effects the panel offers (part_005:454-490), three of the five
EffectNames == {"equalizer", "compressor", "reverb"}

\* the elements of a sequence
Range(seq) == {seq[i] : i \in 1..Len(seq)}

\* prev.filter(name => name !== effectName)
RECURSIVE Without(_, _)
Without(seq, e) ==
    IF seq = <<>> THEN <<>>
    ELSE IF Head(seq) = e THEN Without(Tail(seq), e)
    ELSE <<Head(seq)>> \o Without(Tail(seq), e)

\* an updater that puts a newly activated effect first
ToggledFirst(prev, effectName) ==
    IF effectName \in Range(prev)
    THEN Without(prev, effectName)
    ELSE <<effectName>> \o prev

\* toggleEffect's updater (part_005:98-102)
Toggled(prev, effectName) ==
    IF effectName \in Range(prev)
    THEN Without(prev, effectName)
    ELSE Append(prev, effectName)

\* toggleEffect (part_005:97-103)
ToggleEffect ==
    /\ \E effectName \in EffectNames :
           activeEffects' = Toggled(activeEffects, effectName)
    /\ UNCHANGED <<recVars, mixVars, sideVars, durVars, processedAudioUrl, isProcessing,
                   previewSrc, renders, nRenders, applying, nApplies, graph>>

\* resetParameters (part_005:115-148)
ResetParameters ==
    /\ activeEffects' = <<>>
    /\ UNCHANGED <<recVars, mixVars, sideVars, durVars, processedAudioUrl, isProcessing,
                   previewSrc, renders, nRenders, applying, nApplies, graph>>

\* the nodes one effect adds to the chain, from the node currentNode is
\* connected to down to the new currentNode (part_005:178-308)
Nodes(effectType) ==
    CASE effectType = "equalizer" -> <<"lowShelf", "midPeaking", "highShelf">>
      [] effectType = "compressor" -> <<"compressor">>
      [] effectType = "reverb" -> <<"reverb.convolver+dryGain",
                                    "reverb.outputGain">>
      [] effectType = "delay" -> <<"delay.delay+dryGain", "delay.outputGain">>
      [] effectType = "chorus" -> <<"chorus.delay+dryGain",
                                    "chorus.outputGain">>
      [] OTHER -> <<>>

\* activeEffects.forEach(...) and the connection to the destination
\* (part_005:172-312): the path from the source to the destination
RECURSIVE Chain(_)
Chain(effects) ==
    IF effects = <<>> THEN <<"destination">>
    ELSE Nodes(Head(effects)) \o Chain(Tail(effects))

\* processAudioWithEffects up to its first await (part_005:150-158): the
\* call keeps the activeEffects, the processedAudioUrl and the
\* currentSession (whose audioBlob it reads, line 159) of its render
ProcessAudioWithEffects ==
    /\ currentSession # null
    /\ activeEffects # <<>>
    /\ nRenders < MaxRenders
    /\ nRenders' = nRenders + 1
    /\ isProcessing' = TRUE
    /\ renders' = renders \cup {[id |-> nRenders + 1,
                                 url |-> processedAudioUrl,
                                 chain |-> activeEffects,
                                 session |-> currentSession[1].id]}
    /\ UNCHANGED <<recVars, mixVars, sideVars, durVars, activeEffects, processedAudioUrl,
                   previewSrc, applying, nApplies, graph>>

\* the Process button, disabled while isProcessing (part_005:842-845)
ProcessClicked ==
    /\ ~isProcessing
    /\ ProcessAudioWithEffects

\* the render and the encoding succeeded (part_005:314-331, 334-336): the
\* URL of the call's closure is revoked, the new one is made and stored, and
\* the change of processedAudioUrl runs the cleanup of lines 80-86
RenderSucceeded(r) ==
    /\ r \in renders
    /\ renders' = renders \ {r}
    /\ LET afterRevoke == IF r.url # 0 THEN Revoked(urls, r.url) ELSE urls
           newProcessedUrl == Len(urls) + 1
           afterCreate == Append(afterRevoke, 0)
       IN /\ urls' = IF processedAudioUrl # 0
                     THEN Revoked(afterCreate, processedAudioUrl)
                     ELSE afterCreate
          /\ processedAudioUrl' = newProcessedUrl
          /\ previewSrc' = newProcessedUrl
          /\ graph' = graph @@ (newProcessedUrl :> Chain(r.chain))
    /\ isProcessing' = FALSE
    /\ UNCHANGED <<recVars, mixVars, sideVars, fxStoreRest, currentSession, activeEffects,
                   nRenders, applying, nApplies>>

\* the steps of a render that may throw before anything is stored:
\* arrayBuffer and decodeAudioData (part_005:159-161), the construction of
\* the graph (164-312), startRendering (315-316), audioBufferToWav (319)
RenderSteps == {"decode", "graph", "render", "encode"}

\* a failure at `step` with the old URL revoked first
RenderFailedAfterRevoke(r, step) ==
    /\ r \in renders
    /\ renders' = renders \ {r}
    /\ isProcessing' = FALSE
    /\ urls' = IF r.url # 0 THEN Revoked(urls, r.url) ELSE urls
    /\ UNCHANGED <<recVars, mixVars, sideVars, fxStoreRest, currentSession, activeEffects,
                   processedAudioUrl, previewSrc, nRenders, applying,
                   nApplies, graph>>

\* the render threw at `step`: every such step comes before line 322, so
\* the catch and the finally block are all that runs (part_005:332-336)
RenderFailedAt(r, step) ==
    /\ r \in renders
    /\ renders' = renders \ {r}
    /\ isProcessing' = FALSE
    /\ UNCHANGED <<recVars, mixVars, sideVars, durVars, activeEffects, processedAudioUrl,
                   previewSrc, nRenders, applying, nApplies, graph>>

RenderFailed(r) == \E step \in RenderSteps : RenderFailedAt(r, step)

\* applyEffectsToSession up to fetch (part_005:410-413)
ApplyEffectsToSession ==
    /\ processedAudioUrl # 0
    /\ nApplies < MaxApplies
    /\ nApplies' = nApplies + 1
    /\ applying' = applying \cup {[id |-> nApplies + 1,
                                   url |-> processedAudioUrl]}
    /\ UNCHANGED <<recVars, mixVars, sideVars, durVars, activeEffects, processedAudioUrl,
                   isProcessing, previewSrc, renders, nRenders, graph>>

\* fetch and response.blob() resolved (part_005:414-426); updateSession
\* (projectStore.ts:387-394) keeps a null session null
ApplyFetched(a) ==
    /\ a \in applying
    /\ applying' = applying \ {a}
    /\ LET newAudioUrl == Len(urls) + 1
           afterRevoke == Revoked(Append(urls, 0), a.url)
       IN /\ currentSession' =
                 IF currentSession = null THEN null
                 ELSE <<[currentSession[1] EXCEPT !.audioUrl = newAudioUrl]>>
          /\ urls' = IF processedAudioUrl # 0
                     THEN Revoked(afterRevoke, processedAudioUrl)
                     ELSE afterRevoke
    /\ processedAudioUrl' = 0
    /\ UNCHANGED <<recVars, mixVars, sideVars, fxStoreRest, activeEffects, isProcessing,
                   previewSrc, renders, nRenders, nApplies, graph>>

\* fetch of a URL revoked in the meantime rejected: nothing handles it
ApplyFetchFailed(a) ==
    /\ a \in applying
    /\ urls[a.url] > 0
    /\ applying' = applying \ {a}
    /\ UNCHANGED <<recVars, mixVars, sideVars, durVars, activeEffects, processedAudioUrl,
                   isProcessing, previewSrc, renders, nRenders, nApplies,
                   graph>>

\* what the panel does once a render was asked for
FxNext ==
    \/ ToggleEffect
    \/ ResetParameters
    \/ \E r \in renders : RenderSucceeded(r)
    \/ \E r \in renders : RenderFailed(r)
    \/ ApplyEffectsToSession
    \/ \E a \in applying : ApplyFetched(a)
    \/ \E a \in applying : ApplyFetchFailed(a)
    \/ ClearSession

\* ========================================== Part IV: the multi-track player
\* MultiTrackPlayer.tsx and the mix operations of the track store.  Times
\* are whole seconds.  A handler and the effects of the render it causes
\* are one step: React runs them before the next event or frame.

\* the slider positions 0, 1/VolumeSteps, ..., 1 (min 0, max 1)
Volumes == 0..VolumeSteps

\* the tracks of the test of the transport, and a permutation of them
TrackLengths == {<<3, 5, 2>>, <<5, 3, 2>>}

TrackIds == DOMAIN trackLen

RECURSIVE MaxOf(_)
\* Math.max(0, ...values)
MaxOf(values) ==
    IF values = {} THEN 0
    ELSE LET v == CHOOSE x \in values : TRUE
             m == MaxOf(values \ {v})
         IN  IF v > m THEN v ELSE m

\* the master duration effect (MultiTrackPlayer.tsx:18-21)
MasterDuration(lengths) == MaxOf({lengths[i] : i \in DOMAIN lengths})

\* audio.volume as the setup effect computes it (MultiTrackPlayer.tsx:40)
ElementVolume(trackVolume, master, muted) ==
    trackVolume * master * (IF muted THEN 0 ELSE 1)

\* a mix that forgets the solo flags
ElementMutedNoSolo(muted, solo, i) == muted[i]

\* audio.muted as the setup effect computes it (MultiTrackPlayer.tsx:41)
ElementMuted(muted, solo, i) ==
    muted[i] \/ ((\E t \in DOMAIN solo : solo[t]) /\ ~solo[i])

\* the setup effect (MultiTrackPlayer.tsx:24-53, deps tracks,
\* trackSessions, masterVolume) after a render with the new values
SetupEffect ==
    /\ elVolume' = [i \in hasSession |->
                       ElementVolume(volume'[i], masterVolume', is_muted'[i])]
    /\ elMuted' = [i \in hasSession |-> ElementMuted(is_muted', is_solo', i)]

\* the player mounted over the tracks `lengths`, of which `loaded` have a
\* session: tracks are created with volume 1.0, not muted, not solo
\* (aiStore.ts:688-696); the elements are created paused at 0
PlayerMounted(lengths, loaded) ==
    /\ trackLen = lengths
    /\ hasSession = loaded
    /\ is_muted = [i \in DOMAIN lengths |-> FALSE]
    /\ is_solo = [i \in DOMAIN lengths |-> FALSE]
    /\ volume = [i \in DOMAIN lengths |-> VolumeSteps]
    /\ soloing = <<>>
    /\ masterVolume = VolumeSteps
    /\ currentTime = 0
    /\ isPlaying = FALSE
    /\ duration = MasterDuration(lengths)
    /\ elTime = [i \in loaded |-> 0]
    /\ elPaused = [i \in loaded |-> TRUE]
    /\ elMuted = [i \in loaded |-> FALSE]
    /\ elVolume = [i \in loaded |-> VolumeSteps * VolumeSteps]

\* ---------------------------------------------------------------- the mix

\* updateTrack (aiStore.ts:730-756): the row is updated and the store
\* replaces the track, or the request fails and the store keeps it
\* muteTrack (aiStore.ts:887-889), called with !track.is_muted
MuteTrack(i) ==
    /\ \E ok \in BOOLEAN :
          is_muted' = IF ok THEN [is_muted EXCEPT ![i] = ~is_muted[i]]
                      ELSE is_muted
    /\ UNCHANGED <<is_solo, volume, masterVolume>>
    /\ SetupEffect
    /\ UNCHANGED <<recVars, durVars, fxVars, sideVars, trackLen, hasSession, soloing,
                   transport>>

\* setTrackVolume (aiStore.ts:883-885), called by the track's slider
SetTrackVolume(i, v) ==
    /\ \E ok \in BOOLEAN :
          volume' = IF ok THEN [volume EXCEPT ![i] = v] ELSE volume
    /\ UNCHANGED <<is_muted, is_solo, masterVolume>>
    /\ SetupEffect
    /\ UNCHANGED <<recVars, durVars, fxVars, sideVars, trackLen, hasSession, soloing,
                   transport>>

\* the master slider (MultiTrackPlayer.tsx:301-309)
SetMasterVolume(v) ==
    /\ masterVolume' = v
    /\ UNCHANGED <<is_muted, is_solo, volume>>
    /\ SetupEffect
    /\ UNCHANGED <<recVars, durVars, fxVars, sideVars, trackLen, hasSession, soloing,
                   transport>>

\* a sequence without its j-th element
RemoveAt(seq, j) ==
    [n \in 1..(Len(seq) - 1) |-> IF n < j THEN seq[n] ELSE seq[n + 1]]

\* soloTrack (aiStore.ts:891-911), called with !track.is_solo: to unsolo
\* it makes one update; to solo it starts a loop over the tracks with
\* one awaited update a track.  Nothing keeps a second call from starting
\* while a loop is suspended.
SoloTrack(i) ==
    /\ IF is_solo[i]
       THEN /\ \E ok \in BOOLEAN :
                  is_solo' = IF ok THEN [is_solo EXCEPT ![i] = FALSE]
                             ELSE is_solo
            /\ UNCHANGED soloing
       ELSE /\ Len(soloing) < MaxSolos
            /\ soloing' = Append(soloing, [target |-> i, next |-> 1, ok |-> TRUE])
            /\ UNCHANGED is_solo
    /\ UNCHANGED <<is_muted, volume, masterVolume>>
    /\ SetupEffect
    /\ UNCHANGED <<recVars, durVars, fxVars, sideVars, trackLen, hasSession, transport>>

\* one turn of the loop of the j-th suspended soloTrack (aiStore.ts:896-902);
\* `ok`: updateTrack returned true.  The call returns after the last track.
SoloStep(j, ok) ==
    /\ j \in DOMAIN soloing
    /\ LET target == soloing[j].target
           k == soloing[j].next
       IN  /\ IF ~ok THEN UNCHANGED <<is_solo, is_muted>>
              ELSE IF k = target
              THEN /\ is_solo' = [is_solo EXCEPT ![k] = TRUE]
                   /\ is_muted' = [is_muted EXCEPT ![k] = FALSE]
              ELSE /\ is_solo' = [is_solo EXCEPT ![k] = FALSE]
                   /\ UNCHANGED is_muted
           /\ soloing' = IF k = Len(trackLen) THEN RemoveAt(soloing, j)
                         ELSE [soloing EXCEPT ![j] =
                                  [target |-> target, next |-> k + 1,
                                   ok |-> soloing[j].ok /\ ok]]
    /\ UNCHANGED <<volume, masterVolume>>
    /\ SetupEffect
    /\ UNCHANGED <<recVars, durVars, fxVars, sideVars, trackLen, hasSession, transport>>

\* the solo button pressed while no soloTrack call is suspended
SoloPressed(i) == soloing = <<>> /\ SoloTrack(i)

\* the controls of the mixer, one soloTrack call at a time (calls that
\* overlap are the behaviours of SpecSolo)
MixNext ==
    \/ \E i \in TrackIds : MuteTrack(i)
    \/ \E i \in TrackIds, v \in Volumes : SetTrackVolume(i, v)
    \/ \E v \in Volumes : SetMasterVolume(v)
    \/ \E i \in TrackIds : SoloPressed(i)
    \/ \E j \in 1..MaxSolos, ok \in BOOLEAN : SoloStep(j, ok)

\* ---------------------------------------------------------- the transport

\* the skip buttons move the playhead by 10 s (MultiTrackPlayer.tsx:162)
SkipSeconds == 10

\* the currentTime setter of an element keeps the position inside the
\* media; an element without media keeps the value as the position to
\* start from
Clamp(t, i) == IF i \in elFailed THEN t ELSE Min(t, trackLen[i])

\* `audio.currentTime = t; audio.play()` on a paused element at `old`:
\* play() on an element whose playback has ended seeks to the start.  The
\* seek of the setter has either taken effect when play() looks at the
\* position or has not (`late`); both are conforming.
PlayResult(old, t, i, late) ==
    IF i \in elFailed THEN t
    ELSE IF late
    THEN IF old = trackLen[i] THEN 0 ELSE Clamp(t, i)
    ELSE IF Clamp(t, i) = trackLen[i] THEN 0 ELSE Clamp(t, i)

\* the sync effect (MultiTrackPlayer.tsx:93-110, deps isPlaying,
\* currentTime) on elements at `times` and `paused`, when the render
\* has `playing` and the playhead `t`; `changed`: a dependency changed
SyncEffect(changed, playing, t, times, paused, late) ==
    IF ~changed THEN [time |-> times, paused |-> paused]
    ELSE IF playing
    THEN [time |-> [i \in hasSession |->
                      IF paused[i] THEN PlayResult(times[i], t, i, late[i])
                      ELSE times[i]],
          paused |-> [i \in hasSession |-> paused[i] /\ i \in elFailed]]
    ELSE [time |-> times, paused |-> [i \in hasSession |-> TRUE]]

\* a render with the new transport state and its sync effect
Rendered(playing, t, times, paused) ==
    /\ isPlaying' = playing
    /\ currentTime' = t
    /\ \E late \in [hasSession -> BOOLEAN] :
          LET s == SyncEffect(playing # isPlaying \/ t # currentTime,
                              playing, t, times, paused, late)
          IN  /\ elTime' = s.time
              /\ elPaused' = s.paused
    /\ UNCHANGED <<recVars, durVars, fxVars, sideVars, storeMix, mixer, duration>>

\* the first element of the Map, playing or not
FirstElement ==
    IF hasSession = {} THEN 0
    ELSE CHOOSE i \in hasSession : \A j \in hasSession : i <= j

\* audioElements.find(audio => !audio.paused): the Map keeps the order
\* in which the setup effect inserted the elements, the order of tracks
FirstPlaying ==
    LET playing == {i \in hasSession : ~elPaused[i]}
    IN  IF playing = {} THEN 0
        ELSE CHOOSE i \in playing : \A j \in playing : i <= j

\* one frame of updateTime (MultiTrackPlayer.tsx:116-137)
Tick ==
    /\ isPlaying
    /\ LET p == FirstPlaying
       IN  IF p = 0
           THEN Rendered(isPlaying, currentTime, elTime, elPaused)
           ELSE IF elTime[p] >= duration
           THEN Rendered(FALSE, 0, [i \in hasSession |-> 0],
                         [i \in hasSession |-> TRUE])
           ELSE Rendered(TRUE, elTime[p], elTime, elPaused)

\* a second of playback: every element that plays moves on
Elapse ==
    /\ \E i \in hasSession : ~elPaused[i] /\ elTime[i] < trackLen[i]
    /\ elTime' = [i \in hasSession |->
                    IF ~elPaused[i] /\ elTime[i] < trackLen[i]
                    THEN elTime[i] + 1 ELSE elTime[i]]
    /\ UNCHANGED <<recVars, durVars, fxVars, sideVars, storeMix, mixer, duration,
                   currentTime, isPlaying, elPaused>>

\* the element's task at the end of its media: paused becomes true and
\* `ended` fires
EndTask(i) ==
    /\ ~elPaused[i]
    /\ elTime[i] = trackLen[i]
    /\ elPaused' = [elPaused EXCEPT ![i] = TRUE]
    /\ UNCHANGED <<recVars, durVars, fxVars, sideVars, storeMix, mixer, duration,
                   currentTime, isPlaying, elTime>>

\* handlePlayPause (MultiTrackPlayer.tsx:150-152)
HandlePlayPause == Rendered(~isPlaying, currentTime, elTime, elPaused)

\* handleSeek (MultiTrackPlayer.tsx:154-159)
HandleSeek(newTime) ==
    Rendered(isPlaying, newTime, [i \in hasSession |-> Clamp(newTime, i)],
             elPaused)

\* the click on the progress bar (MultiTrackPlayer.tsx:211-217)
ProgressClicked == \E newTime \in 0..duration : HandleSeek(newTime)

\* handleSkipBack (MultiTrackPlayer.tsx:161-164)
HandleSkipBack ==
    HandleSeek(IF currentTime > SkipSeconds THEN currentTime - SkipSeconds
               ELSE 0)

\* handleSkipForward (MultiTrackPlayer.tsx:166-169)
HandleSkipForward == HandleSeek(Min(duration, currentTime + SkipSeconds))

\* handleReset (MultiTrackPlayer.tsx:171-174)
HandleReset ==
    Rendered(FALSE, 0, [i \in hasSession |-> 0], elPaused)

TransportNext ==
    \/ Tick
    \/ Elapse
    \/ \E i \in hasSession : EndTask(i)
    \/ HandlePlayPause
    \/ ProgressClicked
    \/ HandleSkipBack
    \/ HandleSkipForward
    \/ HandleReset

\* ================================================== Part V: conversions
\* audioBufferToWav (part_005:339-387).  A sample is a float; it is
\* written here as a whole number of units of 1/65534, so that
\* sample * 32767 is half the number and Math.round can be followed
\* exactly.  NaN stands for itself.

\* const maxValue = 32767 (part_005:374)
maxValue == 32767
SampleUnit == 2 * maxValue
Float(k) == [kind |-> "number", v |-> k]

\* samples below -1, above 1, at -1/65534 and 1/65534 (half a step
\* either side of 0), at 1/32767, at 1, and NaN
Samples ==
    <<Float(0 - 98301), Float(100000), Float(0 - 1), Float(1), Float(2),
      Float(65534), NaN>>

\* the sample rates of the buffers
SampleRates == {8000, 44100, 48000}

\* buffer.getChannelData(channel)[i]: the buffers are filled with the
\* samples above in rotation, starting at `seed`
ChannelData(b, channel, i) ==
    Samples[((b.seed + i * b.numberOfChannels + channel) % Len(Samples)) + 1]

Buffers ==
    [length : 0..MaxFrames, numberOfChannels : 1..MaxChannels,
     sampleRate : SampleRates, seed : 0..(Len(Samples) - 1)]

\* view.setUint8 / charCodeAt of the four tags
Tag(name) ==
    CASE name = "RIFF" -> <<82, 73, 70, 70>>
      [] name = "WAVE" -> <<87, 65, 86, 69>>
      [] name = "fmt " -> <<102, 109, 116, 32>>
      [] name = "data" -> <<100, 97, 116, 97>>

\* view.setUint16(offset, v, true): v modulo 2^16, low byte first
Uint16LE(v) ==
    LET u == v % 65536 IN <<u % 256, u \div 256>>

\* view.setUint32(offset, v, true): v modulo 2^32, low byte first.  The
\* sizes and rates of the buffers here are below 2^31, where the modulus
\* leaves v as it is: the fourth byte is v \div 2^24.
Uint32LE(v) ==
    <<v % 256, (v \div 256) % 256, (v \div 65536) % 256, v \div 16777216>>

\* view.setInt16(offset, v, true): two's complement; NaN is written as 0
Int16LE(q) == IF q = NaN THEN <<0, 0>> ELSE Uint16LE(q.v)

\* Math.max(-1, Math.min(1, sample)) (part_005:375): NaN stays NaN
Clamped(sample) ==
    IF sample = NaN THEN NaN
    ELSE IF sample.v > SampleUnit THEN Float(SampleUnit)
    ELSE IF sample.v < 0 - SampleUnit THEN Float(0 - SampleUnit)
    ELSE sample

\* a quantizer that skips the clamp
QuantizedUnclamped(sample) ==
    IF sample = NaN THEN NaN ELSE Float((sample.v + 1) \div 2)

\* Math.round(sample * maxValue) of the clamped sample (part_005:375-376):
\* Math.round rounds a half towards +Infinity
Quantized(sample) ==
    IF Clamped(sample) = NaN THEN NaN
    ELSE Float((Clamped(sample).v + 1) \div 2)

RECURSIVE SampleBytes(_, _, _)
\* the sample loop (part_005:373-384) from frame i, channel `channel`
SampleBytes(b, i, channel) ==
    IF i >= b.length THEN <<>>
    ELSE IF channel >= b.numberOfChannels THEN SampleBytes(b, i + 1, 0)
    ELSE Int16LE(Quantized(ChannelData(b, channel, i)))
             \o SampleBytes(b, i, channel + 1)

\* a header whose RIFF size counts the whole file
WavHeaderWholeFile(b) ==
    LET blockAlign == b.numberOfChannels * 2
        dataSize == b.length * blockAlign
    IN  Tag("RIFF") \o Uint32LE(44 + dataSize) \o Tag("WAVE")
        \o Tag("fmt ") \o Uint32LE(16) \o Uint16LE(1)
        \o Uint16LE(b.numberOfChannels) \o Uint32LE(b.sampleRate)
        \o Uint32LE(b.sampleRate * blockAlign) \o Uint16LE(blockAlign)
        \o Uint16LE(16) \o Tag("data") \o Uint32LE(dataSize)

\* the header (part_005:340-371)
WavHeader(b) ==
    LET bytesPerSample == 2
        blockAlign == b.numberOfChannels * bytesPerSample
        byteRate == b.sampleRate * blockAlign
        dataSize == b.length * blockAlign
        bufferSize == 44 + dataSize
    IN  Tag("RIFF") \o Uint32LE(bufferSize - 8) \o Tag("WAVE")
        \o Tag("fmt ") \o Uint32LE(16) \o Uint16LE(1)
        \o Uint16LE(b.numberOfChannels) \o Uint32LE(b.sampleRate)
        \o Uint32LE(byteRate) \o Uint16LE(blockAlign)
        \o Uint16LE(16) \o Tag("data") \o Uint32LE(dataSize)

audioBufferToWav(b) == WavHeader(b) \o SampleBytes(b, 0, 0)

\* a render hands its buffer to audioBufferToWav (part_005:319)
ConvertBuffer ==
    /\ buffer # <<>>
    /\ wav = <<>>
    /\ wav' = audioBufferToWav(buffer[1])
    /\ UNCHANGED <<wavFrame, buffer>>

\* the next render
NextBuffer ==
    /\ wav # <<>>
    /\ \E b \in Buffers : buffer' = <<b>>
    /\ wav' = <<>>
    /\ UNCHANGED wavFrame

\* Part V at rest
PureIdle ==
    /\ buffer = <<>>
    /\ wav = <<>>

\* ==================================== Part VI: overlapping createTrack
\* createTrack (aiStore.ts:662-728) and the tracks table with its trigger
\* (20250630033544_ancient_sea.sql:82-100) when several calls are in
\* progress at once.  A call is suspended at getAudioDuration, at the
\* insert and at createTrackSession.  The insert runs in a transaction of
\* its own: the BEFORE INSERT trigger counts the rows committed so far,
\* and the row is committed afterwards.

CreateIds == 1..MaxCreates
DeleteIds == 1..MaxDeletes

\* a row of the tracks table as the store keeps it
TrackRow(id, order, url) ==
    [id |-> id, track_order |-> order, duration_seconds |-> Seconds(1),
     audio_url |-> url]

\* n tracks read back by loadTracks (aiStore.ts:786-811)
Loaded(n) == [i \in 1..n |-> TrackRow(i, i, 0)]

\* no createTrack call is in progress
OverlapIdle ==
    /\ creates = [c \in CreateIds |-> [pc |-> "idle"]]
    /\ db = <<>>
    /\ trackSessions = {}

\* no deleteTrack call was made
DeleteIdle == deletes = [d \in DeleteIds |-> [pc |-> "idle"]]

\* the ids of the rows that deleteTrack calls removed
DeletedIds ==
    {deletes[d].id : d \in {e \in DeleteIds : /\ deletes[e].pc = "done"
                                              /\ deletes[e].result}}

\* the primary key the table gives to a new row (ancient_sea.sql:35-36, id uuid
\* DEFAULT gen_random_uuid()): a key that no row had before
NewId == Len(db) + Cardinality(DeletedIds) + 1

\* the rows of a list except the row of a track
WithoutTrack(list, id) == SelectSeq(list, LAMBDA t : t.id # id)

\* track_order of the rows of a list
Orders(list) == {list[i].track_order : i \in 1..Len(list)}

\* a next order that looks at the store when the row is built

\* Math.max(0, ...existingTracks.map(t => t.track_order)) + 1
\* (aiStore.ts:682, 696)
NextOrder(existingTracks) == MaxOf(Orders(existingTracks)) + 1

\* createTrack up to getAudioDuration (aiStore.ts:662-676): existingTracks
\* is the list of this moment
CreateBegun(c) ==
    /\ creates[c].pc = "idle"
    /\ IF Len(tracks) >= TrackLimit
       THEN /\ creates' = [creates EXCEPT ![c] =
                              [pc |-> "done", result |-> "null"]]
            /\ trackError' = "track-limit"
       ELSE /\ creates' = [creates EXCEPT ![c] =
                              [pc |-> "awaitDuration",
                               existingTracks |-> tracks]]
            /\ trackError' = "null"
    /\ UNCHANGED <<overlapFrame, tracks, urls, db,
                   trackSessions>>

\* getAudioDuration resolved: the URL is made and the row is sent
\* (aiStore.ts:676-703)
CreateRowSent(c) ==
    /\ creates[c].pc = "awaitDuration"
    /\ creates' = [creates EXCEPT ![c] =
                      [pc |-> "awaitInsert",
                       row |-> TrackRow(0, NextOrder(creates[c].existingTracks),
                                        createObjectURL)]]
    /\ urls' = Created
    /\ UNCHANGED <<overlapFrame, tracks, trackError, db,
                   trackSessions>>

\* getAudioDuration rejected: the catch block (aiStore.ts:723-727)
CreateDurationFailed(c) ==
    /\ creates[c].pc = "awaitDuration"
    /\ creates' = [creates EXCEPT ![c] = [pc |-> "done", result |-> "null"]]
    /\ trackError' = "duration-failed"
    /\ UNCHANGED <<overlapFrame, tracks, urls, db,
                   trackSessions>>

\* check_track_limit (ancient_sea.sql:83-96) in the transaction of the
\* insert: it counts the committed rows
TriggerChecked(c) ==
    /\ creates[c].pc = "awaitInsert"
    /\ creates' = [creates EXCEPT ![c] =
                      [pc |-> IF Len(db) >= TrackLimit THEN "raised"
                              ELSE "checked",
                       row |-> creates[c].row]]
    /\ UNCHANGED <<overlapFrame, tracks, trackError, urls,
                   db, trackSessions>>

\* the transaction commits its row
RowCommitted(c) ==
    /\ creates[c].pc = "checked"
    /\ db' = Append(db, [creates[c].row EXCEPT !.id = NewId])
    /\ creates' = [creates EXCEPT ![c] =
                      [pc |-> "inserted",
                       row |-> [creates[c].row EXCEPT !.id = NewId]]]
    /\ UNCHANGED <<overlapFrame, tracks, trackError, urls,
                   trackSessions>>

\* the response of the insert arrived: the store appends the track
\* (aiStore.ts:705-717) and createTrackSession starts (aiStore.ts:720)
CreateInserted(c) ==
    /\ creates[c].pc = "inserted"
    /\ tracks' = Append(tracks, creates[c].row)
    /\ creates' = [creates EXCEPT ![c] =
                      [pc |-> "awaitSession", row |-> creates[c].row]]
    /\ UNCHANGED <<overlapFrame, trackError, urls, db,
                   trackSessions>>

\* the insert failed, by the trigger or otherwise: `error` is thrown
\* (aiStore.ts:705) and the catch block stores error.message when the
\* client library's error is an Error, 'Failed to create track' when it
\* is a plain object (aiStore.ts:723-727)
CreateInsertFailed(c) ==
    /\ creates[c].pc \in {"awaitInsert", "raised"}
    /\ creates' = [creates EXCEPT ![c] = [pc |-> "done", result |-> "null"]]
    /\ \E isError \in BOOLEAN :
          trackError' = IF ~isError THEN "create-failed"
                        ELSE IF creates[c].pc = "raised" THEN "track-limit"
                        ELSE "insert-failed"
    /\ UNCHANGED <<overlapFrame, tracks, urls, db,
                   trackSessions>>

\* createTrackSession finished (aiStore.ts:813-833): with the session, or
\* with its failure logged; createTrack returns the track
CreateFinished(c) ==
    /\ creates[c].pc = "awaitSession"
    /\ creates' = [creates EXCEPT ![c] =
                      [pc |-> "done", result |-> "track"]]
    /\ \E ok \in BOOLEAN :
          IF ok
          THEN /\ trackSessions' =
                     {s \in trackSessions : s.trackId # creates[c].row.id}
                        \cup {[trackId |-> creates[c].row.id,
                               audioUrl |-> createObjectURL]}
               /\ urls' = Created
          ELSE UNCHANGED <<trackSessions, urls>>
    /\ UNCHANGED <<overlapFrame, tracks, trackError, db>>

\* deleteTrack up to the request (aiStore.ts:758-764), for a track of the
\* list
DeleteBegun(d, id) ==
    /\ deletes[d].pc = "idle"
    /\ id \in {tracks[i].id : i \in 1..Len(tracks)}
    /\ deletes' = [deletes EXCEPT ![d] = [pc |-> "awaitDelete", id |-> id]]
    /\ trackError' = "null"
    /\ UNCHANGED <<deleteFrame, tracks, urls, db, trackSessions>>

\* the request failed (aiStore.ts:767, 779-783)
DeleteRefused(d) ==
    /\ deletes[d].pc = "awaitDelete"
    /\ deletes' = [deletes EXCEPT ![d] =
                      [pc |-> "done", id |-> deletes[d].id,
                       result |-> FALSE]]
    /\ trackError' = "delete-failed"
    /\ UNCHANGED <<deleteFrame, tracks, urls, db, trackSessions>>

\* the row is deleted: clearTrackSession revokes the URL of the session
\* the map holds for the track and removes it (aiStore.ts:847-858), and
\* the track leaves the list (aiStore.ts:769-778)
DeleteDone(d) ==
    /\ deletes[d].pc = "awaitDelete"
    /\ deletes' = [deletes EXCEPT ![d] =
                      [pc |-> "done", id |-> deletes[d].id,
                       result |-> TRUE]]
    /\ db' = WithoutTrack(db, deletes[d].id)
    /\ tracks' = WithoutTrack(tracks, deletes[d].id)
    /\ trackSessions' = {s \in trackSessions : s.trackId # deletes[d].id}
    /\ urls' = [u \in DOMAIN urls |->
                  IF \E s \in trackSessions :
                        s.trackId = deletes[d].id /\ s.audioUrl = u
                  THEN urls[u] + 1 ELSE urls[u]]
    /\ UNCHANGED <<deleteFrame, trackError>>

OverlapNext ==
    \E c \in CreateIds :
        \/ CreateBegun(c)
        \/ CreateRowSent(c)
        \/ CreateDurationFailed(c)
        \/ TriggerChecked(c)
        \/ RowCommitted(c)
        \/ CreateInserted(c)
        \/ CreateInsertFailed(c)
        \/ CreateFinished(c)

\* ================================== Part VII: the container of a session
\* The choice of the recording container in startRecording
\* (useAudioRecorder.ts:271-291) and what pauseRecording, resumeRecording
\* and stopRecording (345-407) do with the encoder that was built with it.

\* the preference list (lines 274-280)
supportedTypes ==
    <<"audio/webm;codecs=opus", "audio/webm", "audio/mp4",
      "audio/ogg;codecs=opus", "audio/wav">>

Containers == {supportedTypes[i] : i \in DOMAIN supportedTypes}

\* the loop of lines 282-287 taken from the far end of the list
RECURSIVE LastSupported(_, _)
LastSupported(types, isTypeSupported) ==
    IF types = <<>> THEN ""
    ELSE IF types[Len(types)] \in isTypeSupported THEN types[Len(types)]
    ELSE LastSupported(SubSeq(types, 1, Len(types) - 1), isTypeSupported)

\* the loop of lines 282-287: mimeType stays '' unless an entry is
\* supported, and the first supported entry ends the loop
RECURSIVE FirstSupported(_, _)
FirstSupported(types, isTypeSupported) ==
    IF types = <<>> THEN ""
    ELSE IF Head(types) \in isTypeSupported THEN Head(types)
    ELSE FirstSupported(Tail(types), isTypeSupported)

\* new MediaRecorder(stream, mimeType ? { mimeType } : undefined), line
\* 290: without the option the encoder uses the platform's own container
RecorderMimeType(mimeType) ==
    IF mimeType # "" THEN mimeType ELSE "platform-default"

\* startRecording, lines 271-291 and 308
MimeStart ==
    /\ recorderMime' = RecorderMimeType(FirstSupported(supportedTypes, platformTypes))
    /\ recorderState' = "recording"
    /\ blobType' = "none"
    /\ UNCHANGED <<mimeFrame, platformTypes>>

\* pauseRecording, lines 387-398
MimePause ==
    /\ recorderMime # "none"
    /\ recorderState = "recording"
    /\ recorderState' = "paused"
    /\ UNCHANGED <<mimeFrame, platformTypes, recorderMime, blobType>>

\* resumeRecording, lines 400-407
MimeResume ==
    /\ recorderMime # "none"
    /\ recorderState = "paused"
    /\ recorderState' = "recording"
    /\ UNCHANGED <<mimeFrame, platformTypes, recorderMime, blobType>>

\* stopRecording, lines 345-357: the blob is labelled 'audio/webm'
MimeStop ==
    /\ recorderMime # "none"
    /\ recorderState # "inactive"
    /\ recorderState' = "inactive"
    /\ blobType' = "audio/webm"
    /\ UNCHANGED <<mimeFrame, platformTypes, recorderMime>>

MimeNext == MimeStart \/ MimePause \/ MimeResume \/ MimeStop

\* Part VII at rest
MimeIdle ==
    /\ platformTypes = {}
    /\ recorderMime = "none"
    /\ recorderState = "inactive"
    /\ blobType = "none"

\* ============================== Part VIII: the status of a transformation
\* checkTransformationStatus (aiStore.ts:264-339) for one transformation
\* that createTransformation stored with status 'pending' (lines 212-249),
\* the status vocabulary of the inference service (replicate.ts:13-16) and
\* the check constraint of the table
\* (20250630220409_ancient_villa.sql:13-16).  A check is suspended at the
\* read of the row, at the status request and at the update.

\* ReplicatePrediction.status
RemoteStatuses == {"starting", "processing", "succeeded", "failed", "canceled"}

\* ai_transformations_status_check
PersistedStatuses == {"pending", "processing", "completed", "failed", "cancelled"}

\* the row createTransformation inserts
StoredRow(hasPrediction) ==
    [status |-> "pending", started_at |-> FALSE, completed_at |-> FALSE,
     replicate_prediction_id |-> hasPrediction]

\* updates.status (lines 286-296): the remote status, but 'completed' for
\* 'succeeded'
UpdatedStatus(remote) ==
    IF remote = "succeeded" THEN "completed" ELSE remote

\* polling is started by createTransformation and the check is its
\* callback (line 248); the row is requested (lines 266-270)
CheckBegun ==
    /\ checkPc = "idle"
    /\ pollingActive
    /\ checkPc' = "readsRow"
    /\ checkRow' = <<>>
    /\ statusResponse' = <<>>
    /\ updates' = <<>>
    /\ UNCHANGED <<aiFrame, transformation, currentTransformation, pollingActive,
                   cancelPc>>

\* the row arrives; without a prediction id the check returns (line 272)
CheckRowRead ==
    /\ checkPc = "readsRow"
    /\ checkRow' = <<transformation>>
    /\ checkPc' = IF transformation.replicate_prediction_id
                  THEN "asksStatus" ELSE "idle"
    /\ UNCHANGED <<aiFrame, transformation, currentTransformation,
                   statusResponse, updates, pollingActive, cancelPc>>

\* the status request fails or answers success: false (lines 277-282, 335)
CheckStatusFailed ==
    /\ checkPc = "asksStatus"
    /\ checkPc' = "idle"
    /\ UNCHANGED <<aiFrame, transformation, currentTransformation, checkRow,
                   statusResponse, updates, pollingActive, cancelPc>>

\* the status arrives and the update is built and sent (lines 284-318)
CheckStatusArrived ==
    /\ checkPc = "asksStatus"
    /\ \E remote \in RemoteStatuses :
        /\ statusResponse' = <<remote>>
        /\ updates' = <<[status |-> UpdatedStatus(remote),
                         started_at |-> /\ remote = "processing"
                                        /\ ~checkRow[1].started_at,
                         completed_at |-> remote \in {"succeeded", "failed"}]>>
    /\ checkPc' = "updates"
    /\ UNCHANGED <<aiFrame, transformation, currentTransformation, checkRow,
                   pollingActive, cancelPc>>

\* the update is refused by the constraint or lost: no row comes back and
\* the store is left alone (lines 320, 335)
CheckUpdateRefused ==
    /\ checkPc = "updates"
    /\ checkPc' = "idle"
    /\ UNCHANGED <<aiFrame, transformation, currentTransformation, checkRow,
                   statusResponse, updates, pollingActive, cancelPc>>

\* the update is applied; the row that comes back replaces the copy of
\* the store, and polling stops when the remote status is one of
\* 'completed', 'failed', 'cancelled' (lines 313-334)
CheckUpdateApplied ==
    /\ checkPc = "updates"
    /\ updates[1].status \in PersistedStatuses
    /\ transformation' = [transformation EXCEPT
                              !.status = updates[1].status,
                              !.started_at = @ \/ updates[1].started_at,
                              !.completed_at = @ \/ updates[1].completed_at]
    /\ currentTransformation' = transformation'
    /\ pollingActive' = IF statusResponse[1] \in {"completed", "failed", "cancelled"}
                        THEN FALSE ELSE pollingActive
    /\ checkPc' = "idle"
    /\ UNCHANGED <<aiFrame, checkRow, statusResponse, updates, cancelPc>>

\* cancelTransformation (lines 341-372): the row is updated ...
CancelTransformation ==
    /\ cancelPc = "idle"
    /\ transformation' = [transformation EXCEPT !.status = "cancelled",
                                                !.completed_at = TRUE]
    /\ cancelPc' = "stores"
    /\ UNCHANGED <<aiFrame, currentTransformation, checkPc, checkRow,
                   statusResponse, updates, pollingActive>>

\* ... and then the copy of the store, and polling stops
CancelStored ==
    /\ cancelPc = "stores"
    /\ currentTransformation' = [currentTransformation EXCEPT
                                     !.status = "cancelled",
                                     !.completed_at = TRUE]
    /\ pollingActive' = FALSE
    /\ cancelPc' = "idle"
    /\ UNCHANGED <<aiFrame, transformation, checkPc, checkRow,
                   statusResponse, updates>>

CheckNext ==
    \/ CheckBegun
    \/ CheckRowRead
    \/ CheckStatusFailed
    \/ CheckStatusArrived
    \/ CheckUpdateRefused
    \/ CheckUpdateApplied
    \/ CancelTransformation
    \/ CancelStored

\* Part VIII at rest
AiIdle ==
    /\ transformation = StoredRow(FALSE)
    /\ currentTransformation = StoredRow(FALSE)
    /\ checkPc = "idle"
    /\ checkRow = <<>>
    /\ statusResponse = <<>>
    /\ updates = <<>>
    /\ pollingActive = FALSE
    /\ cancelPc = "idle"

\* ========================================================== specifications

\* every track can be played
MediaIdle == elFailed = {}

\* Parts V to VIII at rest
SideIdle ==
    PureIdle /\ OverlapIdle /\ MimeIdle /\ AiIdle /\ MediaIdle /\ DeleteIdle

\* Part II at rest, for the behaviours of the recorder
DurIdle ==
    /\ DurInit
    /\ audioBlob = 0
    /\ user
    /\ tracks = <<>>

\* Part IV at rest: no tracks, so the player is not mounted
\* (part_007:186)
PlayerIdle == PlayerMounted(<<>>, {})

\* Part I at rest, for the behaviours of the stores
RecIdle ==
    /\ RecInit
    /\ platform = [isSecureContext |-> TRUE, hasGetUserMedia |-> TRUE,
                   hasPermissions |-> TRUE]

\* the recorder with a healthy encoder, under every interleaving of its
\* handlers, the direct permission probes and the platform's events
Init == RecInit /\ DurIdle /\ FxInit /\ PlayerIdle /\ SideIdle
Next == GateNext \/ RecorderNext
Spec == Init /\ [][Next]_vars

\* the recorder with an encoder that may fail, without direct probes
FaultyNext == RecorderNext \/ FaultNext
SpecFaulty == Init /\ [][FaultyNext]_vars

\* the effects panel over a current session, its Process button disabled
\* while a render runs
EffectsInit ==
    /\ RecIdle
    /\ FxInit
    /\ PlayerIdle
    /\ SideIdle
    /\ audioBlob = UnitsPerSecond
    /\ user = TRUE
    /\ tracks = <<>>
    /\ calls = 0
    /\ caller = "createSession"
    /\ newTrack = null
    /\ callerPc = "done"
    /\ resolved = TRUE
    /\ listening = FALSE
    /\ timeoutArmed = FALSE
    /\ tempRevoked = 0
    /\ decoding = 0
    /\ attempts = [s \in Strategies |-> IF s = "element" THEN 1 ELSE 0]
    /\ failed = {}
    /\ promise = [state |-> "fulfilled", value |-> Seconds(2)]
    /\ currentSession = <<[id |-> 0, duration |-> Seconds(2),
                           estimated |-> FALSE, audioUrl |-> 1]>>
    /\ trackSession = null
    /\ trackResult = "none"
    /\ trackError = "null"
    /\ urls = <<0>>
EffectsNext == ProcessClicked \/ FxNext
SpecEffects == EffectsInit /\ [][EffectsNext]_vars

\* the same with processAudioWithEffects called whatever isProcessing says
RendersNext == ProcessAudioWithEffects \/ FxNext
SpecRenders == EffectsInit /\ [][RendersNext]_vars

\* the panel while new recordings, whose duration the playback element
\* reports, replace the session
SessionsNext ==
    \/ ProcessClicked
    \/ ToggleEffect
    \/ \E r \in renders : RenderSucceeded(r)
    \/ \E r \in renders : RenderFailed(r)
    \/ CreateSession
    \/ ElementEvent
    \/ SessionCreated
SpecSessions == EffectsInit /\ [][SessionsNext]_vars

\* the store operations, one at a time, and the resolver they await
DurationInit == RecIdle /\ DurInit /\ FxInit /\ PlayerIdle /\ SideIdle
DurationNext == ResolverNext \/ StoreNext
SpecDuration == DurationInit /\ [][DurationNext]_vars

\* the stores of Parts II and III at rest with a finished recording
StoresIdle ==
    /\ RecIdle
    /\ FxInit
    /\ DurIdle
    /\ SideIdle

\* the mix: three tracks, any of them recorded in this visit (tracks
\* read back by loadTracks have no session, aiStore.ts:786-811)
MixerInit ==
    /\ StoresIdle
    /\ \E loaded \in SUBSET {1, 2, 3} : PlayerMounted(<<3, 5, 2>>, loaded)
SpecMixer == MixerInit /\ [][MixNext]_vars

\* soloTrack(id, true) calls alone, over three loaded tracks of which any
\* are muted
SoloInit ==
    /\ StoresIdle
    /\ \E muted \in [1..3 -> BOOLEAN] :
          /\ trackLen = <<3, 5, 2>>
          /\ hasSession = {1, 2, 3}
          /\ is_muted = muted
          /\ is_solo = [i \in 1..3 |-> FALSE]
          /\ volume = [i \in 1..3 |-> VolumeSteps]
          /\ soloing = <<>>
          /\ masterVolume = VolumeSteps
          /\ currentTime = 0
          /\ isPlaying = FALSE
          /\ duration = MasterDuration(<<3, 5, 2>>)
          /\ elTime = [i \in 1..3 |-> 0]
          /\ elPaused = [i \in 1..3 |-> TRUE]
          /\ elMuted = [i \in 1..3 |-> ElementMuted(muted, is_solo, i)]
          /\ elVolume = [i \in 1..3 |->
                            ElementVolume(VolumeSteps, VolumeSteps, muted[i])]
\* the solo button of a track that is not solo: soloTrack(id, true)
SoloOn(i) == ~is_solo[i] /\ SoloTrack(i)
SoloNext ==
    \/ \E i \in TrackIds : SoloOn(i)
    \/ \E j \in 1..MaxSolos, ok \in BOOLEAN : SoloStep(j, ok)
SpecSolo == SoloInit /\ [][SoloNext]_vars

\* the transport over three recorded tracks of different lengths
TransportInit ==
    /\ StoresIdle
    /\ \E lengths \in TrackLengths :
          PlayerMounted(lengths, DOMAIN lengths)
SpecTransport == TransportInit /\ [][TransportNext]_vars

\* the browser keeps running frames, playback and element tasks; the
\* user owes no click
TransportFairness ==
    /\ WF_vars(Tick)
    /\ WF_vars(Elapse)
    /\ \A i \in 1..3 : WF_vars(EndTask(i))
\* uninterrupted playback: the user presses only play/pause
PlaybackNext ==
    \/ Tick
    \/ Elapse
    \/ \E i \in hasSession : EndTask(i)
    \/ HandlePlayPause
SpecPlayback == TransportInit /\ [][PlaybackNext]_vars /\ TransportFairness

\* the transport over three recorded tracks, any of which the browser
\* cannot play
FailingInit ==
    /\ RecIdle
    /\ FxInit
    /\ DurIdle
    /\ PureIdle
    /\ OverlapIdle
    /\ MimeIdle
    /\ AiIdle
    /\ DeleteIdle
    /\ \E lengths \in TrackLengths :
          /\ PlayerMounted(lengths, DOMAIN lengths)
          /\ elFailed \in SUBSET DOMAIN lengths
SpecFailing == FailingInit /\ [][TransportNext]_vars

\* everything but the conversions at rest
AppIdle ==
    /\ RecIdle
    /\ FxInit
    /\ DurIdle
    /\ PlayerIdle
    /\ OverlapIdle
    /\ MimeIdle
    /\ AiIdle
    /\ MediaIdle
    /\ DeleteIdle

\* audioBufferToWav over every buffer of the bounds
WavInit ==
    /\ AppIdle
    /\ \E b \in Buffers : buffer = <<b>>
    /\ wav = <<>>
WavNext == ConvertBuffer \/ NextBuffer
SpecWav == WavInit /\ [][WavNext]_vars

\* a project with no track, one track short of the limit, or at the
\* limit, all of them read back from the table
PreloadedTracks == {0, TrackLimit - 1, TrackLimit}

OverlapInit ==
    /\ RecIdle
    /\ MimeIdle
    /\ AiIdle
    /\ MediaIdle
    /\ DeleteIdle
    /\ FxInit
    /\ PlayerIdle
    /\ buffer = <<>>
    /\ wav = <<>>
    /\ audioBlob = UnitsPerSecond
    /\ user = TRUE
    /\ calls = 0
    /\ caller = "none"
    /\ newTrack = null
    /\ callerPc = "idle"
    /\ resolved = FALSE
    /\ listening = FALSE
    /\ timeoutArmed = FALSE
    /\ tempRevoked = 0
    /\ decoding = 0
    /\ attempts = [s \in Strategies |-> 0]
    /\ failed = {}
    /\ promise = Pending
    /\ currentSession = null
    /\ trackSession = null
    /\ trackResult = "none"
    /\ trackError = "null"
    /\ urls = <<>>
    /\ \E n \in PreloadedTracks :
          /\ tracks = Loaded(n)
          /\ db = Loaded(n)
    /\ creates = [c \in CreateIds |-> [pc |-> "idle"]]
    /\ trackSessions = {}
SpecOverlap == OverlapInit /\ [][OverlapNext]_vars

\* createTrack calls while tracks of the list are deleted
DeleteNext ==
    \/ OverlapNext
    \/ \E d \in DeleteIds, id \in 1..(TrackLimit + MaxCreates) :
          DeleteBegun(d, id)
    \/ \E d \in DeleteIds : DeleteRefused(d)
    \/ \E d \in DeleteIds : DeleteDone(d)
SpecDelete == OverlapInit /\ [][DeleteNext]_vars

\* the choice of a container on every platform
MimeInit ==
    /\ RecIdle
    /\ FxInit
    /\ DurIdle
    /\ PlayerIdle
    /\ PureIdle
    /\ OverlapIdle
    /\ AiIdle
    /\ MediaIdle
    /\ DeleteIdle
    /\ platformTypes \in SUBSET Containers
    /\ recorderMime = "none"
    /\ recorderState = "inactive"
    /\ blobType = "none"
SpecMime == MimeInit /\ [][MimeNext]_vars

\* a transformation that was just stored, polled until polling stops
CheckInit ==
    /\ RecIdle
    /\ FxInit
    /\ DurIdle
    /\ PlayerIdle
    /\ PureIdle
    /\ OverlapIdle
    /\ MimeIdle
    /\ MediaIdle
    /\ DeleteIdle
    /\ \E hasPrediction \in BOOLEAN :
           /\ transformation = StoredRow(hasPrediction)
           /\ currentTransformation = StoredRow(hasPrediction)
    /\ checkPc = "idle"
    /\ checkRow = <<>>
    /\ statusResponse = <<>>
    /\ updates = <<>>
    /\ pollingActive = TRUE
    /\ cancelPc = "idle"
SpecCheck == CheckInit /\ [][CheckNext]_vars

\* ================================================================== claims

\* --- C1 (Spec) ---------------------------------------------------------
\* a step in which getUserMedia hands out a stream: the probe of
\* requestPermissions or checkPermissions, the permission request inside
\* startRecording, or startRecording's own capture stream
AcquiresStream ==
    \/ RequestGranted
    \/ CheckGumGranted
    \/ \E k \in StartIds : StartPermissionGranted(k)
    \/ \E k \in StartIds : StartStreamGranted(k)

\* C1: over every interleaving of startRecording, stopRecording,
\* resetRecording, checkPermissions and requestPermissions there are never
\* two live capture streams at once: a stream is acquired only when every
\* stream acquired before it has been released.
C1_OneLiveStream == [][AcquiresStream => LiveStreams = {}]_vars

\* --- C2 (Spec) ---------------------------------------------------------
\* Idle with no startRecording and no permission probe in flight
QuiescentIdle ==
    /\ ~isRecording
    /\ \A k \in StartIds : startPc[k] \in {"idle", "done"}
    /\ Probes = 0

\* C2: every capture stream is released exactly once on every exit path,
\* the failure of startRecording after the stream was obtained included:
\* no stream is released twice, and in every quiescent Idle state every
\* stream that was acquired has been released.
C2_EveryStreamReleased ==
    /\ \A k \in StartIds : released[k] <= 1
    /\ QuiescentIdle =>
           \A k \in StartIds : stream[k] # "none" => released[k] = 1

\* --- C3 (Spec) ---------------------------------------------------------
\* pauseRecording changes something only in Recording
PauseOnlyInRecording ==
    (PauseRecording /\ vars' # vars) => (isRecording /\ ~isPaused)

\* resumeRecording changes something only in Paused
ResumeOnlyInPaused ==
    (ResumeRecording /\ vars' # vars) => (isRecording /\ isPaused)

\* an invocation of startRecording issued while Recording (startLoop[k]
\* holds exactly for those) creates neither a stream nor an encoder nor a
\* timer
StartOnlyFromIdle ==
    \A k \in StartIds :
        (startLoop[k] /\ StartStreamGranted(k)) =>
            /\ stream' = stream
            /\ rec' = rec
            /\ nTimers' = nTimers

\* C3: the recorder moves Idle -> Recording -> (Paused <-> Recording) ->
\* Idle; isPaused implies isRecording in every reachable state; pause acts
\* only in Recording and resume only in Paused; a start issued while
\* Recording creates no second encoder, stream or timer.
C3_StateMachine ==
    /\ [](isPaused => isRecording)
    /\ [][PauseOnlyInRecording /\ ResumeOnlyInPaused /\ StartOnlyFromIdle]_vars

\* --- C4 (Spec) ---------------------------------------------------------
\* every non-empty chunk encoder k delivered, in the order of delivery
SessionChunks(k) == [i \in 1..nEvents[k] |-> <<k, i>>]

\* C4: the blob stopRecording resolves with is the concatenation, in
\* order, of every non-empty chunk of the session that was stopped: none
\* missing, none of another session, also when startRecording or
\* resetRecording runs between stop() and the encoder's stop event.
C4_BlobIsTheSession ==
    \A k \in StartIds : blob[k].resolved => blob[k].chunks = SessionChunks(k)

\* --- C5 (SpecFaulty) ---------------------------------------------------
\* what resetRecording leaves behind
ResetPost ==
    /\ ~isRecording' /\ ~isPaused'
    /\ recordingTime' = 0
    /\ audioLevel' = 0
    /\ error' = "null"
    /\ chunksRef' = <<>>

\* what resetRecording leaves of a session that was active: the encoder
\* the hook holds is stopped, the timer it holds is cleared and the stream
\* it holds is released
ResetStopsSession ==
    /\ mediaRecorderRef # 0 => rec'[mediaRecorderRef] = "inactive"
    /\ ~timerRef'
    /\ nTimers' = IF timerRef THEN nTimers - 1 ELSE nTimers
    /\ streamRef' = 0
    /\ streamRef # 0 => stream'[streamRef] = "released"

\* C5: resetRecording, from any state, leaves the recorder Idle with
\* isRecording = false, isPaused = false, recordingTime = 0, audioLevel = 0,
\* error = null and an empty chunk buffer; when a session was active it
\* has also stopped the encoder, cleared the timer and released the stream.
C5_ResetLeavesIdle ==
    [][ResetRecording => (ResetPost /\ (isRecording => ResetStopsSession))]_vars

\* --- C6 (Spec) ---------------------------------------------------------
\* no recorder is active: none was ever created, or the one the hook holds
\* was stopped by stopRecording or resetRecording and has delivered its
\* stop event
NoActiveRecorder ==
    \/ mediaRecorderRef = 0
    \/ /\ rec[mediaRecorderRef] = "inactive"
       /\ flush[mediaRecorderRef] = "none"
       /\ onstop[mediaRecorderRef] = "fired"

\* C6: whenever no recorder is active (recording never started, or already
\* stopped or reset) stopRecording resolves with null: it neither rejects
\* nor hangs, whatever the engine.
C6_StopWithoutRecorderIsNull ==
    NoActiveRecorder => \A engineThrows \in BOOLEAN :
                            StopResult(engineThrows) = "null"

\* --- C7 (Spec) ---------------------------------------------------------
\* C7: an updateAudioLevel callback is pending exactly when the recorder
\* is Recording (isRecording and not isPaused): the loop runs after start
\* and after resume, and nothing is pending in Paused or Idle.
C7_LevelLoopWhileRecording == (nRaf > 0) <=> (isRecording /\ ~isPaused)

\* --- C8 (SpecDuration) -------------------------------------------------
\* strategy s is started in this step of the running call
Starts(s) == promise' # Pending /\ attempts'[s] > attempts[s]

\* C8: resolveDuration tries its strategies strictly in order: the decode
\* starts only once the element strategy has failed, the size estimate
\* only once a decode has failed, and once the promise has been fulfilled
\* no strategy is started any more.
C8_StrategiesInOrder ==
    [][/\ Starts("decode") => "element" \in failed'
       /\ Starts("size") => "decode" \in failed'
       /\ promise.state = "fulfilled" =>
              \A s \in Strategies : ~Starts(s)]_vars

\* --- C9 (SpecDuration) -------------------------------------------------
\* 0 < size_bytes < 57,600,000
SizeInRange == 0 < audioBlob /\ audioBlob < 57600000

\* C9: resolveDuration rejects only when all three strategies have failed,
\* which needs a blob of 0 bytes or of 57,600,000 bytes or more; every
\* value it resolves with is finite and greater than 0; the size estimate
\* is accepted exactly when 0 < size_bytes < 57,600,000.
C9_RejectsOnlyWhenAllFail ==
    /\ promise.state = "rejected" =>
           (failed = Strategies /\ ~SizeInRange)
    /\ promise.state = "fulfilled" =>
           (promise.value.kind = "number" /\ promise.value.v > 0)
    /\ attempts["size"] > 0 => ("size" \in failed <=> ~SizeInRange)

\* the resolver has rejected a blob just over the limit, all three
\* strategies having failed
C9_Rejected ==
    /\ promise.state = "rejected"
    /\ audioBlob = 57600000
    /\ attempts["size"] > 0

\* --- C10 (SpecDuration) ------------------------------------------------
\* createSession has returned after the resolver rejected
SessionAfterRejection ==
    /\ caller = "createSession" /\ callerPc = "done"
    /\ promise.state = "rejected"

\* createTrack has returned, and what stopped it was neither the missing
\* user nor the track limit nor the insert: its resolver rejected
TrackAfterRejection ==
    /\ caller = "createTrack" /\ callerPc = "done"
    /\ user /\ Len(tracks) < TrackLimit /\ newTrack = null
    /\ promise.state = "rejected"

\* C10: when resolveDuration rejects both callers still succeed with the
\* size-based duration of last resort: createSession has installed a
\* session with a finite positive duration, createTrack has created the
\* track and set no error.
C10_CallersSurviveRejection ==
    /\ SessionAfterRejection =>
           /\ currentSession # null
           /\ currentSession[1].duration.kind = "number"
           /\ currentSession[1].duration.v > 0
    /\ TrackAfterRejection =>
           /\ trackResult = "track"
           /\ trackError = "null"

\* --- C11 (SpecDuration) ------------------------------------------------
\* C11: creating a session for an owner that already has one first revokes
\* the object URL it supersedes: whenever currentSession is replaced, the
\* audioUrl of the session it held has been revoked, so that no more
\* session URLs are live than there are sessions in the store.
C11_SupersededUrlRevoked ==
    [][(currentSession # null /\ currentSession' # currentSession) =>
           urls'[currentSession[1].audioUrl] = 1]_vars

\* --- C12 (SpecEffects) -------------------------------------------------
\* the object URLs a session or the panel still holds
HeldUrls ==
    (IF currentSession = null THEN {} ELSE {currentSession[1].audioUrl})
        \cup (IF processedAudioUrl = 0 THEN {} ELSE {processedAudioUrl})

\* C12: every object URL created for a playable blob is revoked exactly
\* once: never twice, and not zero times once its session has been
\* replaced or cleared and the panel has dropped it.
C12_RevokedExactlyOnce ==
    \A u \in 1..Len(urls) :
        /\ urls[u] <= 1
        /\ u \notin HeldUrls => urls[u] = 1

\* --- C18 (SpecEffects) -------------------------------------------------
\* where e stands in a sequence without duplicates
Position(seq, e) == CHOOSE i \in 1..Len(seq) : seq[i] = e

\* later keeps the order earlier gives to the elements they share
SameOrder(earlier, later) ==
    \A i, j \in 1..Len(later) :
        i < j => Position(earlier, later[i]) < Position(earlier, later[j])

\* activeEffects changes by an activation at the end, by a deactivation
\* that keeps the order of the rest, or by the reset to nothing
OrderKept ==
    \/ activeEffects' = activeEffects
    \/ activeEffects' = <<>>
    \/ \E e \in EffectNames \ Range(activeEffects) :
           activeEffects' = activeEffects \o <<e>>
    \/ \E e \in Range(activeEffects) :
           /\ Range(activeEffects') = Range(activeEffects) \ {e}
           /\ Len(activeEffects') = Len(activeEffects) - 1
           /\ SameOrder(activeEffects, activeEffects')

\* the effect whose last node this is
EffectOf(node) ==
    CASE node = "highShelf" -> <<"equalizer">>
      [] node = "compressor" -> <<"compressor">>
      [] node = "reverb.outputGain" -> <<"reverb">>
      [] node = "delay.outputGain" -> <<"delay">>
      [] node = "chorus.outputGain" -> <<"chorus">>
      [] OTHER -> <<>>

\* the effects a path from the source to the destination goes through
RECURSIVE EffectsOf(_)
EffectsOf(path) ==
    IF path = <<>> THEN <<>>
    ELSE EffectOf(Head(path)) \o EffectsOf(Tail(path))

\* a render takes the activeEffects of its call, and what it renders goes
\* through the effects in that order
RenderKeepsOrder ==
    /\ \A r \in renders' \ renders : r.chain = activeEffects
    /\ \A r \in renders :
           RenderSucceeded(r) =>
               EffectsOf(graph'[processedAudioUrl']) = r.chain

\* C18: the effects chain is built in exactly the user's activation order:
\* toggleEffect appends a newly activated effect at the end and removes a
\* deactivated one without reordering the rest, activeEffects never holds
\* a duplicate, and the render connects the nodes in that sequence.
C18_ActivationOrder ==
    /\ [](Cardinality(Range(activeEffects)) = Len(activeEffects))
    /\ [][OrderKept /\ RenderKeepsOrder]_vars

\* a render went through the compressor and then the equalizer, the
\* reverse of the order the panel lists them in
C18_CompressorFirst ==
    \E u \in DOMAIN graph :
        graph[u] = <<"compressor", "lowShelf", "midPeaking", "highShelf",
                     "destination">>

\* --- C19 (SpecEffects) -------------------------------------------------
\* what a render may surface
Surfaced == <<processedAudioUrl, previewSrc, currentSession, urls, graph>>

\* C19: an effects render is all-or-nothing: when decoding, graph
\* construction, rendering or encoding fails, processedAudioUrl, the
\* preview element's source and the session audio are unchanged and no
\* URL is made or revoked; isProcessing is false again after every
\* attempt, whether it succeeded or failed.
C19_AllOrNothing ==
    /\ [](isProcessing <=> renders # {})
    /\ [][\A r \in renders :
            /\ \A step \in RenderSteps :
                   RenderFailedAt(r, step) => Surfaced' = Surfaced
            /\ (RenderFailed(r) \/ RenderSucceeded(r)) => ~isProcessing']_vars

\* two renders have run over a session, one of them failed, and the
\* output of the other is still the panel's processed audio
C19_FailedBesideOutput ==
    /\ nRenders = 2 /\ renders = {}
    /\ ~isProcessing
    /\ currentSession # null
    /\ processedAudioUrl = 2 /\ Len(urls) = 2 /\ urls[2] = 0
    /\ previewSrc = 2

LongestRanOut ==
    \E i \in hasSession : trackLen[i] = duration /\ elTime[i] = trackLen[i]

\* C13: with tracks of different lengths playing, once the longest track
\* has run out the transport eventually stops (isPlaying = false); it
\* never stays playing for ever after the logical duration was reached.
C13_PlaybackEnds == (isPlaying /\ LongestRanOut) ~> ~isPlaying

\* --- C14 (SpecPlayback) ------------------------------------------------
\* track i ran out before the logical duration and its element stopped
RanOut(i) ==
    /\ trackLen[i] < duration
    /\ elPaused[i]
    /\ elTime[i] = trackLen[i]

\* C14: while the transport is playing, a frame (with the sync pass of
\* its render) leaves an element that ran out before the logical duration
\* stopped where it is: it neither seeks nor restarts it.
C14_RanOutStaysStopped ==
    [][(Tick /\ isPlaying') =>
           \A i \in hasSession :
               RanOut(i) => elPaused'[i] /\ elTime'[i] = elTime[i]]_vars

\* --- C15 (SpecTransport) -----------------------------------------------
\* a seek handler ran
Seeks ==
    ProgressClicked \/ HandleSkipBack \/ HandleSkipForward \/ HandleReset

\* C15: immediately after a seek (progress click, skip back, skip
\* forward, reset), playing or paused, every element and the playhead
\* are at the same time.
C15_SeekAgrees ==
    [][Seeks => \A i \in hasSession : elTime'[i] = currentTime']_vars

\* --- C16 (SpecMixer) ---------------------------------------------------
\* some track is solo
AnySolo == \E t \in TrackIds : is_solo[t]

\* C16: after any change of is_muted, is_solo, a track's volume or the
\* master volume, with no play/pause cycle, every loaded element has
\* muted = is_muted OR (some track is solo AND this one is not) and
\* volume = track volume * master volume * (is_muted ? 0 : 1), a value
\* in [0, 1].
C16_ElementsFollowMix ==
    \A i \in hasSession :
        /\ elMuted[i] = (is_muted[i] \/ (AnySolo /\ ~is_solo[i]))
        /\ elVolume[i] = volume[i] * masterVolume * (IF is_muted[i] THEN 0 ELSE 1)
        /\ elVolume[i] >= 0
        /\ elVolume[i] <= VolumeSteps * VolumeSteps

\* three loaded tracks: the second is solo at half volume under a half
\* master, the third is muted by hand, the first silenced by the solo
C16_SoloAtHalfVolume ==
    /\ hasSession = {1, 2, 3}
    /\ soloing = <<>>
    /\ is_solo = <<FALSE, TRUE, FALSE>>
    /\ is_muted = <<FALSE, FALSE, TRUE>>
    /\ volume[2] = 1 /\ masterVolume = 1
    /\ elMuted = <<TRUE, FALSE, TRUE>>
    /\ elVolume[2] = 1 /\ elVolume[3] = 0

\* --- C17 (SpecMixer) ---------------------------------------------------
\* C17: when one track is solo and the others are not, the solo track's
\* element is audible (not muted, its volume not forced to 0) and the
\* others are muted, whatever the solo track's is_muted.
C17_SoloIsAudible ==
    \A a \in hasSession :
        (hasSession = TrackIds /\ is_solo[a]
            /\ \A b \in TrackIds \ {a} : ~is_solo[b])
        => /\ ~elMuted[a]
           /\ elVolume[a] = volume[a] * masterVolume
           /\ \A b \in TrackIds \ {a} : elMuted[b]

\* --- C21 (SpecWav) -----------------------------------------------------
\* reading the blob back: little-endian fields at a byte offset
ReadUint16(bytes, offset) == bytes[offset + 1] + 256 * bytes[offset + 2]
ReadUint32(bytes, offset) ==
    ReadUint16(bytes, offset) + 65536 * ReadUint16(bytes, offset + 2)
ReadInt16(bytes, offset) ==
    LET u == ReadUint16(bytes, offset)
    IN  IF u >= 32768 THEN u - 65536 ELSE u

\* the 16-bit value `sample` has to be stored as: out of range it
\* saturates, in range it is rounded to the nearest step, NaN is silence
Expected16(sample) ==
    IF sample = NaN THEN 0
    ELSE IF sample.v >= SampleUnit THEN 32767
    ELSE IF sample.v <= 0 - SampleUnit THEN 0 - 32767
    ELSE (sample.v + 1) \div 2

\* the blob of the buffer
Converted == wav # <<>>

\* C21: for n frames, c channels and rate r the blob is a 44-byte header
\* and n*c little-endian 16-bit samples: block align c*2, byte rate
\* r*c*2, data size n*c*2, RIFF size 36 + data size, format tag 1, 16
\* bits per sample, 44 + n*c*2 bytes in all, the samples interleaved by
\* frame and then by channel.
C21_WavLayout ==
    Converted =>
        LET b == buffer[1]
            n == b.length
            c == b.numberOfChannels
            r == b.sampleRate
        IN  /\ Len(wav) = 44 + n * c * 2
            /\ SubSeq(wav, 1, 4) = <<82, 73, 70, 70>>
            /\ ReadUint32(wav, 4) = 36 + n * c * 2
            /\ SubSeq(wav, 9, 16) = <<87, 65, 86, 69, 102, 109, 116, 32>>
            /\ ReadUint32(wav, 16) = 16
            /\ ReadUint16(wav, 20) = 1
            /\ ReadUint16(wav, 22) = c
            /\ ReadUint32(wav, 24) = r
            /\ ReadUint32(wav, 28) = r * c * 2
            /\ ReadUint16(wav, 32) = c * 2
            /\ ReadUint16(wav, 34) = 16
            /\ SubSeq(wav, 37, 40) = <<100, 97, 116, 97>>
            /\ ReadUint32(wav, 40) = n * c * 2
            /\ \A i \in 0..(n - 1), channel \in 0..(c - 1) :
                   ReadInt16(wav, 44 + (i * c + channel) * 2)
                       = Expected16(ChannelData(b, channel, i))

\* a stereo buffer of two frames at 44.1 kHz has been converted
C21_StereoConverted ==
    /\ Converted
    /\ buffer[1].numberOfChannels = 2
    /\ buffer[1].length = 2
    /\ buffer[1].sampleRate = 44100
    /\ Len(wav) = 52

\* --- C22 (SpecWav) -----------------------------------------------------
\* C22: every sample is clamped to [-1, 1] and then quantized to
\* round(sample * 32767): every stored value lies in [-32767, 32767], and
\* a sample outside [-1, 1] is stored as -32767 or 32767, not wrapped.
C22_SamplesSaturate ==
    Converted =>
        LET b == buffer[1]
        IN  \A i \in 0..(b.length - 1), channel \in 0..(b.numberOfChannels - 1) :
                LET sample == ChannelData(b, channel, i)
                    stored == ReadInt16(wav, 44 + (i * b.numberOfChannels + channel) * 2)
                IN  /\ stored >= 0 - 32767
                    /\ stored <= 32767
                    /\ sample # NaN =>
                         /\ sample.v > SampleUnit => stored = 32767
                         /\ sample.v < 0 - SampleUnit => stored = 0 - 32767
                         /\ stored = Quantized(sample).v

\* a buffer with a sample below -1 and a sample above 1 has been
\* converted
C22_OutOfRangeConverted ==
    /\ Converted
    /\ \E i \in 0..(buffer[1].length - 1),
          channel \in 0..(buffer[1].numberOfChannels - 1) :
           /\ ChannelData(buffer[1], channel, i) # NaN
           /\ ChannelData(buffer[1], channel, i).v < 0 - SampleUnit
    /\ \E i \in 0..(buffer[1].length - 1),
          channel \in 0..(buffer[1].numberOfChannels - 1) :
           /\ ChannelData(buffer[1], channel, i) # NaN
           /\ ChannelData(buffer[1], channel, i).v > SampleUnit

\* --- C23 (SpecOverlap) -------------------------------------------------
\* C23: after any createTrack calls, overlapping ones included, the
\* project never holds more than 10 tracks, in the table or in the
\* store's list.
C23_AtMostTenTracks ==
    /\ Len(db) <= TrackLimit
    /\ Len(tracks) <= TrackLimit

\* --- C24 (SpecOverlap) -------------------------------------------------
\* C24: at the moment a track is inserted its track_order is strictly
\* greater than that of every track already in the project, also when
\* createTrack calls overlap.
C24_OrderAboveExisting ==
    [][\A c \in CreateIds :
          RowCommitted(c) =>
              \A i \in 1..Len(db) :
                  creates[c].row.track_order > db[i].track_order]_vars

\* --- C25 (Spec) --------------------------------------------------------
\* what a recording session is made of: the capture streams, the
\* encoders, the analysis taps, the timers, and the flag
SessionParts ==
    <<stream, streamRef, rec, mediaRecorderRef, audioCtx, audioContextRef,
      analyserRef, nTimers, timerRef, isRecording>>

\* the messages requestPermissions stores for a failure
RequestMessages ==
    {RequestFailure(name).error : name \in GumErrorNames \cup {"Error"}}

\* startRecording invocation k returns at the gate: requestPermissions
\* failed before its await or at getUserMedia
GateRefuses(k) ==
    /\ startPc[k] \in {"idle", "awaitPermission"}
    /\ startPc'[k] = "done"
    /\ permissionStatus # "granted"

SevenKinds ==
    {"access-denied", "no-device-found", "device-busy",
     "unsupported-constraints", "not-supported", "cancelled",
     "insecure-context"}

\* requestPermissions fails: at its pre-checks or at getUserMedia, called
\* directly or by startRecording
RequestFails ==
    \/ RequestPermissions /\ ~CanProbe
    \/ RequestRefused
    \/ \E k \in StartIds : GateRefuses(k)

\* C26: whatever makes requestPermissions fail (any error name, the
\* insecure-context and the missing-API pre-checks), the error text it
\* stores is the message of one of the seven kinds.
C26_OneOfSevenKinds == [][RequestFails => error' \in SevenKinds]_vars

\* --- C27 (Spec) --------------------------------------------------------
\* a checkPermissions or requestPermissions call fails
ProbeFails ==
    \/ RequestFails
    \/ CheckPermissions /\ ~CanProbe
    \/ CheckGumRefused

\* ... or completes, with either outcome
ProbeCompletes ==
    \/ ProbeFails
    \/ RequestGranted
    \/ CheckQueryResolved
    \/ CheckGumGranted
    \/ \E k \in StartIds : StartPermissionGranted(k)

\* C27: whatever checkPermissions and requestPermissions calls are made
\* and however they end, permissionStatus is one of unknown, granted,
\* denied, prompt; every completed call leaves isCheckingPermissions
\* false; a failed call changes neither isRecording, isPaused,
\* recordingTime nor the chunk buffer.
C27_GateLeavesRecorderAlone ==
    /\ [](permissionStatus \in {"unknown", "granted", "denied", "prompt"})
    /\ [][/\ ProbeCompletes => ~isCheckingPermissions'
          /\ ProbeFails =>
                 <<isRecording, isPaused, recordingTime, chunksRef>>'
                     = <<isRecording, isPaused, recordingTime, chunksRef>>]_vars

\* a recording with a chunk in its buffer is running after a probe was
\* denied
C27_DeniedWhileRecording ==
    /\ isRecording
    /\ chunksRef # <<>>
    /\ recordingTime > 0
    /\ permissionStatus = "denied"
    /\ error = "access-denied"
    /\ ~isCheckingPermissions
    /\ reqPending = 0 /\ chkQuery = 0 /\ chkGum = 0

\* --- C28 (SpecMime) ----------------------------------------------------
\* position of a container in the preference list
Preference(type) == CHOOSE i \in DOMAIN supportedTypes : supportedTypes[i] = type

\* the container the session must use on this platform
PreferredOn(declared) ==
    IF declared \cap Containers = {} THEN "platform-default"
    ELSE CHOOSE t \in declared \cap Containers :
             \A u \in declared \cap Containers : Preference(t) <= Preference(u)

\* C28: whatever subset of the containers the platform declares
\* supported, the encoder of a session is built with the first supported
\* entry of the preference list (with the platform default when none is
\* supported), and the container stays the same for the whole session:
\* no step but a new startRecording changes it, pause and resume included.
C28_FirstSupportedContainer ==
    /\ [](recorderMime # "none" => recorderMime = PreferredOn(platformTypes))
    /\ [][(MimePause \/ MimeResume \/ recorderMime # "none")
              => recorderMime' = recorderMime]_vars

\* a session paused on a platform that supports only the third and the
\* fifth entry of the list
C28_PausedOnMp4 ==
    /\ platformTypes = {"audio/mp4", "audio/wav"}
    /\ recorderState = "paused"
    /\ recorderMime = "audio/mp4"

\* --- C29 (Spec) --------------------------------------------------------
\* audioLevel counts in units of 1/LevelScale, so [0, 1] is 0..LevelScale.
\* No recording runs while isRecording is false: stopRecording and
\* resetRecording clear it and only a started recording sets it.
LevelRaisedAtRest == ~isRecording /\ audioLevel = 0 /\ audioLevel' # 0

\* C29: the input level is always within [0, 1] (min(mean / 128, 1) of
\* the frequency bins); after stopRecording or resetRecording audioLevel
\* is 0, and it stays 0 until the next recording starts.
C29_LevelZeroAfterStop ==
    /\ [](audioLevel \in 0..LevelScale)
    /\ [][(StopRecording \/ ResetRecording) => audioLevel' = 0]_vars
    /\ [][LevelRaisedAtRest => \E k \in StartIds : StartStreamGranted(k)]_vars

\* --- C30 (SpecCheck) ---------------------------------------------------
\* C30: for every remote status (starting, processing, succeeded, failed,
\* canceled) the status checkTransformationStatus writes with its update
\* is one of pending, processing, completed, failed, cancelled, with
\* succeeded written as completed; the row and its copy in the store hold
\* such a status.
C30_StatusMapped ==
    /\ updates # <<>> =>
           /\ updates[1].status \in PersistedStatuses
           /\ statusResponse[1] = "succeeded" => updates[1].status = "completed"
    /\ transformation.status \in PersistedStatuses
    /\ currentTransformation.status \in PersistedStatuses

\* --- C31 (SpecTransport) -----------------------------------------------
\* play is pressed / pause is pressed
PlayPressed == HandlePlayPause /\ ~isPlaying
PausePressed == HandlePlayPause /\ isPlaying

\* C31: when play is pressed every paused element is put at the playhead
\* (as far as its media reaches) and started, and an element that is
\* playing keeps its position; when pause is pressed every element is
\* paused; while isPlaying is false every element is paused.
C31_PlayPauseReachEveryElement ==
    /\ [][PlayPressed =>
             \A i \in hasSession :
                 IF elPaused[i]
                 THEN ~elPaused'[i] /\ elTime'[i] = Clamp(currentTime, i)
                 ELSE ~elPaused'[i] /\ elTime'[i] = elTime[i]]_vars
    /\ [][PausePressed => \A i \in hasSession : elPaused'[i]]_vars
    /\ [](~isPlaying => \A i \in hasSession : elPaused[i])

\* --- C32 (SpecFailing) -------------------------------------------------
\* the elements that play, none of them one that the browser cannot play
Audible == {i \in hasSession \ elFailed : ~elPaused[i]}

C33_OneTimerWhileRecording ==
    /\ [](nTimers <= 1)
    /\ []((nTimers = 1) <=> (isRecording /\ ~isPaused))
    /\ [][recordingTime' > recordingTime => (isRecording /\ ~isPaused)]_vars

\* --- C34 (SpecSolo) ----------------------------------------------------
\* the j-th soloTrack call makes its last update and returns, every one of
\* its updates having succeeded
SoloCompletes(j) ==
    /\ SoloStep(j, TRUE)
    /\ soloing[j].ok
    /\ soloing[j].next = Len(trackLen)

\* C34: when a soloTrack(id, true) call completes with every update
\* succeeding, track id is solo and not muted, no other track is solo, and
\* the element of every other track is muted.
C34_SoloIsExclusive ==
    [][\A j \in 1..MaxSolos :
          SoloCompletes(j) =>
              LET id == soloing[j].target
              IN  /\ is_solo'[id]
                  /\ ~is_muted'[id]
                  /\ \A t \in TrackIds \ {id} : ~is_solo'[t] /\ elMuted'[t]]_vars

\* --- C35 (SpecCheck) ---------------------------------------------------
\* the statuses with which a remote job is over
TerminalStatuses == {"succeeded", "failed", "canceled"}

\* C35: once a check has observed a terminal remote status (succeeded,
\* failed or canceled) and its update of the record was applied, polling
\* is stopped, and no check is begun while polling is stopped.
C35_PollingStopsAtTerminal ==
    /\ [][(CheckUpdateApplied /\ statusResponse[1] \in TerminalStatuses)
              => ~pollingActive']_vars
    /\ [][CheckBegun => pollingActive]_vars

\* --- C36 (SpecCheck) ---------------------------------------------------
\* cancelTransformation has returned true: the record and the store hold
\* 'cancelled' (no check can write that status) and no cancel is in progress
CancelReturned ==
    /\ cancelPc = "idle"
    /\ transformation.status = "cancelled"
    /\ currentTransformation.status = "cancelled"

\* C36: once cancelTransformation has returned true the status stays
\* 'cancelled' in the record and in the store; no checkTransformationStatus,
\* in flight at the cancel or begun later, overwrites it.
C36_CancelledStays ==
    [][CancelReturned =>
           /\ transformation'.status = "cancelled"
           /\ currentTransformation'.status = "cancelled"]_vars

\* --- C37 (SpecSessions) ------------------------------------------------
\* C37: the processed audio belongs to the current session: a render that
\* stores its URL in processedAudioUrl read the audio of the session that
\* is current when it stores it, also when the session was replaced while
\* the render was in flight; and when the session is replaced,
\* processedAudioUrl becomes null.
C37_PreviewOfCurrentSession ==
    /\ [][\A r \in renders :
             RenderSucceeded(r) =>
                 /\ currentSession' # null
                 /\ r.session = currentSession'[1].id]_vars
    /\ [][(currentSession # null /\ currentSession' # null
           /\ currentSession'[1].id # currentSession[1].id)
              => processedAudioUrl' = 0]_vars

\* --- C38 (SpecDelete) --------------------------------------------------
\* C38: after a deleteTrack(id) that returned true no TrackSession is kept
\* for id, also when a createTrackSession(id) was awaiting the duration at
\* the deletion; and the deletion revokes the object URL of the session.
C38_DeletedTrackHasNoSession ==
    /\ [](\A d \in DeleteIds :
             (deletes[d].pc = "done" /\ deletes[d].result)
                => \A s \in trackSessions : s.trackId # deletes[d].id)
    /\ [][\A d \in DeleteIds :
             DeleteDone(d) =>
                 \A s \in trackSessions :
                     s.trackId = deletes[d].id => urls'[s.audioUrl] = 1]_vars

\* --- C39 (SpecDuration) ------------------------------------------------
\* C39: within one getAudioDuration call no strategy is started more than
\* once, whatever the order of the element's error, its metadata events
\* and the 5 s timeout; the URL made for the playback element is never
\* revoked twice, and it has been revoked once when the call has settled.
C39_EachStrategyOnce ==
    /\ \A s \in Strategies : attempts[s] <= 1
    /\ tempRevoked <= 1
    /\ promise.state # "pending" => tempRevoked = 1

\* --- C40 (SpecMime) ----------------------------------------------------
\* the container of a MIME type: the type without its codecs parameter
ContainerOf(type) ==
    IF type = "audio/webm;codecs=opus" THEN "audio/webm"
    ELSE IF type = "audio/ogg;codecs=opus" THEN "audio/ogg"
    ELSE type

\* C40: the type of the blob that stopRecording returns is the container
\* that startRecording chose for the session, whichever container that is
\* (webm, mp4, ogg, wav or the platform's default).
C40_BlobTypeIsSessionContainer ==
    [][MimeStop => blobType' = ContainerOf(recorderMime)]_vars

====
